---- MODULE Spec2Model ----
(***************************************************************************)
(* Resume structural parser: the two ResumeParser implementations of the   *)
(* repository (python/resume_parser.py, the structured-output parser, and  *)
(* scripts/resume-parser/resume_parser.py, the flat-output parser) and the *)
(* command-line entry point main() around them.                            *)
(*                                                                         *)
(* Text is modelled at character level: a string is a sequence of          *)
(* one-character strings, so that casing (lower, upper, title), word       *)
(* boundaries, substring tests and code-point ordering are computed the    *)
(* way the Python code computes them.  A resume file is the text it holds. *)
(* The hard-coded taxonomy tables are carried in part: the entries that    *)
(* the resume files of the model can touch, in source order.               *)
(***************************************************************************)
EXTENDS Integers, Sequences, FiniteSets, TLC

(***************************************************************************)
(* Characters and the str methods the parsers use.                         *)
(***************************************************************************)
Lowers == <<"a","b","c","d","e","f","g","h","i","j","k","l","m","n","o","p","q","r","s","t","u","v","w","x","y","z">>
Uppers == <<"A","B","C","D","E","F","G","H","I","J","K","L","M","N","O","P","Q","R","S","T","U","V","W","X","Y","Z">>
DigitChars == <<"0","1","2","3","4","5","6","7","8","9">>
NL == "\n"

\* Printable ASCII in code-point order (space is 32); NL is code point 10.  The
\* quote characters and the backslash, which no document of the model holds, keep
\* their places under the names <dquote>, <quote>, <bquote> and <bslash>.
AsciiOrder == <<" ","!","<dquote>","#","$","%","&","<quote>","(",")","*","+",",","-",".","/","0","1","2","3","4","5","6","7","8","9",":",";","<","=",">","?","@","A","B","C","D","E","F","G","H","I","J","K","L","M","N","O","P","Q","R","S","T","U","V","W","X","Y","Z","[","<bslash>","]","^","_","<bquote>","a","b","c","d","e","f","g","h","i","j","k","l","m","n","o","p","q","r","s","t","u","v","w","x","y","z","{","|","}","~">>

\* the least and the greatest element of a non-empty set of integers
SetMin(S) == CHOOSE x \in S : \A y \in S : x <= y
SetMax(S) == CHOOSE x \in S : \A y \in S : x >= y
RangeOf(s) == {s[i] : i \in 1..Len(s)}
LowerSet == RangeOf(Lowers)
UpperSet == RangeOf(Uppers)
DigitSet == RangeOf(DigitChars)
Letters == LowerSet \cup UpperSet
\* the characters of \w of the re module
WordChars == Letters \cup DigitSet \cup {"_"}

LowerMap == LET map(from, to) == [c \in RangeOf(from) |-> to[CHOOSE i \in 1..Len(from) : from[i] = c]]
            IN map(Uppers, Lowers)
UpperMap == LET map(from, to) == [c \in RangeOf(from) |-> to[CHOOSE i \in 1..Len(from) : from[i] = c]]
            IN map(Lowers, Uppers)
OrdMap == LET map(order) == [c \in RangeOf(order) |-> 31 + CHOOSE i \in 1..Len(order) : order[i] = c]
          IN map(AsciiOrder)
DigitMap == LET map(digits) == [c \in RangeOf(digits) |-> (CHOOSE i \in 1..Len(digits) : digits[i] = c) - 1]
            IN map(DigitChars)

IsAlpha(c) == c \in Letters
IsDigit(c) == c \in DigitSet
IsAlnum(c) == c \in Letters \/ c \in DigitSet
\* \w of the re module
IsWordChar(c) == c \in WordChars
\* \s of the re module
IsSpace(c) == c \in {" ", NL, "\t"}
LowerC(c) == LET mapped(map) == IF c \in DOMAIN map THEN map[c] ELSE c IN mapped(LowerMap)
UpperC(c) == LET mapped(map) == IF c \in DOMAIN map THEN map[c] ELSE c IN mapped(UpperMap)
Ord(c) == IF c = NL THEN 10 ELSE OrdMap[c]

\* str.lower(), str.upper()
Lower(s) == [i \in 1..Len(s) |-> LowerC(s[i])]
Upper(s) == [i \in 1..Len(s) |-> UpperC(s[i])]
\* str.title(): a letter is upper-cased when no letter precedes it, lower-cased otherwise
Title(s) == LET cased(c, starts) == IF ~IsAlpha(c) THEN c ELSE IF starts THEN UpperC(c) ELSE LowerC(c)
            IN [i \in 1..Len(s) |-> cased(s[i], i = 1 \/ s[i-1] \notin Letters)]

\* s[a:b] with 1-based inclusive bounds; empty when a > b
Sub(s, a, b) == IF a > b THEN <<>> ELSE SubSeq(s, a, b)
\* the literal lit occurs in s at position i
At(s, i, lit) == i >= 1 /\ i + Len(lit) - 1 <= Len(s) /\ \A k \in 1..Len(lit) : s[i+k-1] = lit[k]
\* the same, ignoring case (lit is given in lower case)
AtCI(s, i, lit) == i >= 1 /\ i + Len(lit) - 1 <= Len(s) /\ \A k \in 1..Len(lit) : LowerC(s[i+k-1]) = lit[k]
\* lit in s
Contains(s, lit) == \E i \in 1..(Len(s) - Len(lit) + 1) : At(s, i, lit)
\* str.startswith, str.endswith
StartsWith(s, lit) == At(s, 1, lit)
EndsWith(s, lit) == Len(lit) <= Len(s) /\ At(s, Len(s) - Len(lit) + 1, lit)
\* str.find: the first position of lit in s, 0 when absent
Find(s, lit) == LET first(hits) == IF hits = {} THEN 0 ELSE SetMin(hits)
                IN first({i \in 1..(Len(s) - Len(lit) + 1) : At(s, i, lit)})

\* str.strip(): leading and trailing white space removed
Strip(s) == LET trimmed(inked) == IF inked = {} THEN <<>> ELSE Sub(s, SetMin(inked), SetMax(inked))
            IN trimmed({i \in 1..Len(s) : ~IsSpace(s[i])})
\* str.rstrip()
RStrip(s) == LET kept(inked) == IF inked = {} THEN <<>> ELSE Sub(s, 1, SetMax(inked))
             IN kept({i \in 1..Len(s) : ~IsSpace(s[i])})

\* the characters of s that satisfy keep, in order (re.sub of a character class by the empty string)
RECURSIVE KeepChars(_, _)
KeepChars(s, keep) == IF s = <<>> THEN <<>>
                      ELSE (IF Head(s) \in keep THEN <<Head(s)>> ELSE <<>>) \o KeepChars(Tail(s), keep)

\* str.split(sep) for a one-character separator: the pieces, empty ones included
RECURSIVE SplitOn(_, _)
SplitOn(s, sep) == IF \A i \in 1..Len(s) : s[i] # sep THEN <<s>>
                   ELSE LET i == CHOOSE k \in 1..Len(s) : s[k] = sep /\ \A j \in 1..(k-1) : s[j] # sep
                        IN <<Sub(s, 1, i-1)>> \o SplitOn(Sub(s, i+1, Len(s)), sep)

\* sep.join(parts)
RECURSIVE Join(_, _)
Join(parts, sep) == IF parts = <<>> THEN <<>>
                    ELSE IF Len(parts) = 1 THEN parts[1]
                    ELSE parts[1] \o sep \o Join(Tail(parts), sep)

\* str.split(): the white-space separated words
Words(s) == LET p == SplitOn([i \in 1..Len(s) |-> IF IsSpace(s[i]) THEN " " ELSE s[i]], " ")
            IN SelectSeq(p, LAMBDA w : w # <<>>)

\* int(s) for a string of decimal digits
RECURSIVE IntOf(_)
IntOf(s) == IF s = <<>> THEN 0 ELSE 10 * IntOf(Sub(s, 1, Len(s) - 1)) + DigitMap[s[Len(s)]]

\* s < t in the string order of Python (code points, a proper prefix first)
RECURSIVE StrLess(_, _)
StrLess(s, t) == IF t = <<>> THEN FALSE
                 ELSE IF s = <<>> THEN TRUE
                 ELSE IF Head(s) # Head(t) THEN Ord(Head(s)) < Ord(Head(t))
                 ELSE StrLess(Tail(s), Tail(t))

\* sorted(S) for a set of strings
RECURSIVE SortedSeq(_)
SortedSeq(S) == IF S = {} THEN <<>>
                ELSE LET m == CHOOSE x \in S : \A y \in S \ {x} : StrLess(x, y)
                     IN <<m>> \o SortedSeq(S \ {m})

\* str(n) zero-padded to width w (the format specs 04d and 02d)
RECURSIVE Digits(_, _)
Digits(n, w) == IF w = 0 THEN <<>> ELSE Digits(n \div 10, w - 1) \o <<DigitChars[(n % 10) + 1]>>
Pad(n, w) == IF n >= 10000 THEN Digits(n, 5) ELSE IF w = 4 /\ n >= 1000 THEN Digits(n, 4)
             ELSE IF w = 2 /\ n >= 100 THEN Digits(n, 3) ELSE Digits(n, w)

Min(a, b) == IF a < b THEN a ELSE b
Max(a, b) == IF a > b THEN a ELSE b
\* s[:n]
Trunc(s, n) == Sub(s, 1, Min(n, Len(s)))
\* the number of characters of the set cs from position p on
RunOf(s, p, cs) == LET upto(stops) == IF stops = {} THEN Len(s) - p + 1 ELSE SetMin(stops) - p
                   IN IF p > Len(s) \/ p < 1 THEN 0 ELSE upto({j \in p..Len(s) : s[j] \notin cs})
\* the number of white-space characters of s from position p on
WsRun(s, p) == RunOf(s, p, {" ", NL, "\t"})
\* \d{4} at position p
Digits4At(s, p) == p >= 1 /\ p + 3 <= Len(s) /\ \A k \in 0..3 : IsDigit(s[p+k])
\* the index of the first alternative of alts that occurs at p (case ignored), 0 when none does
FirstAlt(s, p, alts) == LET first(hits) == IF hits = {} THEN 0 ELSE SetMin(hits)
                        IN first({a \in 1..Len(alts) : AtCI(s, p, alts[a])})
\* the least index in 1..n that satisfies Test, 0 when none does
FirstHit(n, Test(_)) == LET first(hits) == IF hits = {} THEN 0 ELSE SetMin(hits)
                        IN first({e \in 1..n : Test(e)})
\* \b at the gap before position p (p = Len+1 is the end of the string)
WordBoundary(s, p) == LET differ(word) == (p > 1 /\ p - 1 <= Len(s) /\ s[p-1] \in word)
                                          # (p >= 1 /\ p <= Len(s) /\ s[p] \in word)
                      IN differ(WordChars)
\* re.search(r'\b' + re.escape(lit) + r'\b', s): lit occurs in s between word boundaries
WordSearch(lit, s) == \E i \in 1..(Len(s) - Len(lit) + 1) :
                        At(s, i, lit) /\ WordBoundary(s, i) /\ WordBoundary(s, i + Len(lit))
\* re.search(r'(?<![A-Za-z0-9])' + re.escape(lit) + r'(?![A-Za-z0-9])', s, re.IGNORECASE)
AlnumBoundedSearch(lit, s) == \E i \in 1..(Len(s) - Len(lit) + 1) :
                        /\ AtCI(s, i, lit)
                        /\ (i = 1 \/ ~IsAlnum(s[i-1]))
                        /\ (i + Len(lit) > Len(s) \/ ~IsAlnum(s[i + Len(lit)]))

None == "None"

(***************************************************************************)
(* python/resume_parser.py: section segmentation.                          *)
(***************************************************************************)
\* section_keywords of _detect_section_key, in dictionary order
SectionKeywords == <<
  <<"skills", <<<<"s","k","i","l","l","s">>, <<"t","e","c","h","n","i","c","a","l"," ","s","k","i","l","l","s">>, <<"c","o","r","e"," ","c","o","m","p","e","t","e","n","c","i","e","s">>, <<"t","o","o","l","s">>, <<"t","e","c","h","n","o","l","o","g","i","e","s">>, <<"e","x","p","e","r","t","i","s","e">>, <<"p","r","o","f","i","c","i","e","n","c","i","e","s">>>> >>,
  <<"projects", <<<<"p","r","o","j","e","c","t","s">>, <<"p","r","o","j","e","c","t">>, <<"a","c","a","d","e","m","i","c"," ","p","r","o","j","e","c","t","s">>, <<"m","a","c","h","i","n","e"," ","l","e","a","r","n","i","n","g"," ","p","r","o","j","e","c","t","s">>, <<"p","e","r","s","o","n","a","l"," ","p","r","o","j","e","c","t","s">>>> >>,
  <<"experience", <<<<"e","x","p","e","r","i","e","n","c","e">>, <<"w","o","r","k"," ","e","x","p","e","r","i","e","n","c","e">>, <<"p","r","o","f","e","s","s","i","o","n","a","l"," ","e","x","p","e","r","i","e","n","c","e">>, <<"e","m","p","l","o","y","m","e","n","t">>, <<"i","n","t","e","r","n","s","h","i","p"," ","e","x","p","e","r","i","e","n","c","e">>, <<"i","n","t","e","r","n","s","h","i","p","s">>, <<"w","o","r","k"," ","h","i","s","t","o","r","y">>, <<"e","m","p","l","o","y","m","e","n","t"," ","h","i","s","t","o","r","y">>, <<"t","r","a","i","n","i","n","g">>, <<"t","r","a","i","n","i","n","g"," ","e","x","p","e","r","i","e","n","c","e">>>> >>,
  <<"education", <<<<"e","d","u","c","a","t","i","o","n">>, <<"a","c","a","d","e","m","i","c","s">>, <<"a","c","a","d","e","m","i","c"," ","b","a","c","k","g","r","o","u","n","d">>>> >>,
  <<"certifications", <<<<"c","e","r","t","i","f","i","c","a","t","i","o","n","s">>, <<"c","e","r","t","i","f","i","c","a","t","e","s">>, <<"c","e","r","t","i","f","i","c","a","t","i","o","n">>>> >>,
  <<"summary", <<<<"p","r","o","f","e","s","s","i","o","n","a","l"," ","s","u","m","m","a","r","y">>, <<"s","u","m","m","a","r","y">>, <<"p","r","o","f","i","l","e">>, <<"a","b","o","u","t">>>> >> >>

\* ResumeParser._detect_section_key
DetectSectionKey(line) ==
  LET hit(normalized, keywords) ==
        \E k \in 1..Len(keywords) : normalized = keywords[k] \/ StartsWith(normalized, keywords[k])
      section(table, e) == IF e = 0 THEN None ELSE table[e][1]
      keyworded(table, normalized) ==
        IF normalized = <<>> THEN None
        ELSE section(table, FirstHit(Len(table), LAMBDA e : hit(normalized, table[e][2])))
  IN IF line = <<>> THEN None
     ELSE IF Len(line) > 100 THEN None
     ELSE IF Contains(line, <<".">>) /\ Len(SplitOn(line, ".")) > 2 THEN None
     ELSE IF Len(Words(line)) > 8 THEN None
     ELSE keyworded(SectionKeywords, Strip(KeepChars(Lower(line), LowerSet \cup {" "})))

\* the loop of _get_sections over the lines: sections is the mapping built so far
RECURSIVE ScanSections(_, _, _)
ScanSections(lines, sections, current_key) ==
  LET step(line, detected) ==
        IF detected # None
        THEN ScanSections(Tail(lines),
                          IF detected \in DOMAIN sections THEN sections
                          ELSE [k \in DOMAIN sections \cup {detected} |->
                                  IF k = detected THEN <<>> ELSE sections[k]],
                          detected)
        ELSE IF current_key # None
        THEN ScanSections(Tail(lines),
                          [sections EXCEPT ![current_key] = Append(@, line)], current_key)
        ELSE ScanSections(Tail(lines), sections, current_key)
  IN IF lines = <<>> THEN sections ELSE step(Head(lines), DetectSectionKey(Head(lines)))

EmptyMap == [k \in {} |-> <<>>]

\* ResumeParser._get_sections: the cached mapping when it is non-empty, a fresh scan otherwise
GetSections(text_lines, cache) ==
  IF DOMAIN cache # {} THEN cache
  ELSE ScanSections(SelectSeq([i \in 1..Len(text_lines) |-> Strip(text_lines[i])], LAMBDA l : l # <<>>),
                    EmptyMap, None)

\* sections.get(key, [])
SectionLines(sections, key) == IF key \in DOMAIN sections THEN sections[key] ELSE <<>>

(***************************************************************************)
(* python/resume_parser.py: the experience timeline.                       *)
(***************************************************************************)

\* the month alternation of the date patterns, in the order the patterns list it
MonthAlts == <<<<"j","a","n">>, <<"j","a","n","u","a","r","y">>, <<"f","e","b">>, <<"f","e","b","r","u","a","r","y">>, <<"m","a","r">>, <<"m","a","r","c","h">>, <<"a","p","r">>, <<"a","p","r","i","l">>,
               <<"m","a","y">>, <<"j","u","n">>, <<"j","u","n","e">>, <<"j","u","l">>, <<"j","u","l","y">>, <<"a","u","g">>, <<"a","u","g","u","s","t">>, <<"s","e","p">>, <<"s","e","p","t">>,
               <<"s","e","p","t","e","m","b","e","r">>, <<"o","c","t">>, <<"o","c","t","o","b","e","r">>, <<"n","o","v">>, <<"n","o","v","e","m","b","e","r">>, <<"d","e","c">>, <<"d","e","c","e","m","b","e","r">>>>
\* month_map of _parse_duration_and_dates, by position in MonthAlts
MonthNums == <<1, 1, 2, 2, 3, 3, 4, 4, 5, 6, 6, 7, 7, 8, 8, 9, 9, 9, 10, 10, 11, 11, 12, 12>>
\* the third group of month_range: a month, present or current
EndAlts == MonthAlts \o <<<<"p","r","e","s","e","n","t">>, <<"c","u","r","r","e","n","t">>>>
\* the class [-to] of the range patterns; the en and em dash of the class are
\* replaced by a hyphen in cleaned text (_clean_text) and occur in no document
SepChars == {"-", "t", "o"}

\* date_pattern1 of extract_experience_details, as re.search(..., re.IGNORECASE):
\* month \s+ \d{4} \s* .{1,3} \s* month \s+ (\d{4})?
DatePattern1(line) ==
  \E i \in 1..Len(line), a \in 1..Len(MonthAlts) :
    /\ AtCI(line, i, MonthAlts[a])
    /\ LET p == i + Len(MonthAlts[a])
           w == WsRun(line, p)
           q == p + w + 4
       IN /\ w >= 1
          /\ Digits4At(line, p + w)
          /\ \E x \in 0..WsRun(line, q), k \in 1..3 :
               /\ q + x + k - 1 <= Len(line)
               /\ \A c \in (q + x)..(q + x + k - 1) : line[c] # NL
               /\ \E y \in 0..WsRun(line, q + x + k), b \in 1..Len(MonthAlts) :
                    /\ AtCI(line, q + x + k + y, MonthAlts[b])
                    /\ WsRun(line, q + x + k + y + Len(MonthAlts[b])) >= 1

\* date_pattern2: \d{4} \s* .{1,3} \s* (\d{4}|Present|Current)
DatePattern2(line) ==
  \E i \in 1..Len(line) :
    /\ Digits4At(line, i)
    /\ \E x \in 0..WsRun(line, i + 4), k \in 1..3 :
         /\ i + 4 + x + k - 1 <= Len(line)
         /\ \A c \in (i + 4 + x)..(i + 4 + x + k - 1) : line[c] # NL
         /\ \E y \in 0..WsRun(line, i + 4 + x + k) :
              LET e == i + 4 + x + k + y
              IN Digits4At(line, e) \/ AtCI(line, e, <<"p","r","e","s","e","n","t">>) \/ AtCI(line, e, <<"c","u","r","r","e","n","t">>)

IsDateLine(line) == DatePattern1(line) \/ DatePattern2(line)

\* the length of the run of [-to] characters that follows the white space from q on
SepRun(s, q) == RunOf(s, q + WsRun(s, q), SepChars)
\* the end of the separator whose class part starts at p, after white space, with a run of n
SepTail(s, p, k, n) == p + k + (IF k = n THEN WsRun(s, p + k) ELSE 0)
\* Where the greedy \s*[-to]+\s* ends when it starts at q and its class part takes k
\* characters: the white space before and after is taken whole, and no white
\* space follows the class part when the part stops short of its run.
SepEnd(s, q, k) == LET from(p) == SepTail(s, p, k, RunOf(s, p, SepChars)) IN from(q + WsRun(s, q))

\* month_range of _parse_duration_and_dates on lower-cased text: the groups of the
\* leftmost match under the priorities of re (first alternative, longest repeat)
MonthRangeOK(s, i, a) ==
  LET yeared(y) == /\ Digits4At(s, y)
                   /\ \E k \in 1..SepRun(s, y + 4) : FirstAlt(s, SepEnd(s, y + 4, k), EndAlts) # 0
      spaced(p, w) == w >= 1 /\ yeared(p + w)
      named(p) == spaced(p, WsRun(s, p))
  IN At(s, i, MonthAlts[a]) /\ named(i + Len(MonthAlts[a]))
MonthRange(s) ==
  LET groups(a, y, g3, r) ==
        [ok |-> TRUE, g1 |-> a, g2 |-> IntOf(Sub(s, y, y + 3)), g3 |-> g3,
         g4 |-> IF Digits4At(s, r) THEN IntOf(Sub(s, r, r + 3)) ELSE 0]
      ended(a, y, e, g3) == groups(a, y, g3, e + Len(EndAlts[g3]) + WsRun(s, e + Len(EndAlts[g3])))
      separated(a, y, e) == ended(a, y, e, FirstAlt(s, e, EndAlts))
      yeared(a, y) ==
        separated(a, y, SepEnd(s, y + 4, SetMax({j \in 1..SepRun(s, y + 4) :
                                                   FirstAlt(s, SepEnd(s, y + 4, j), EndAlts) # 0})))
      named(i, a) == yeared(a, i + Len(MonthAlts[a]) + WsRun(s, i + Len(MonthAlts[a])))
      at(i) == named(i, SetMin({b \in 1..Len(MonthAlts) : MonthRangeOK(s, i, b)}))
      first(starts) == IF starts = {} THEN [ok |-> FALSE] ELSE at(SetMin(starts))
  IN first({i \in 1..Len(s) : \E a \in 1..Len(MonthAlts) : MonthRangeOK(s, i, a)})

\* range_match: \d{4} \s* [-to]+ \s* (\d{4}|present|current)
YearEndAt(s, e) == Digits4At(s, e) \/ At(s, e, <<"p","r","e","s","e","n","t">>) \/ At(s, e, <<"c","u","r","r","e","n","t">>)
YearRangeOK(s, i) == Digits4At(s, i) /\ \E k \in 1..SepRun(s, i + 4) : YearEndAt(s, SepEnd(s, i + 4, k))
YearRangeEnd(s, i) == SepEnd(s, i + 4, SetMax({j \in 1..SepRun(s, i + 4) : YearEndAt(s, SepEnd(s, i + 4, j))}))
YearRange(s) ==
  LET groups(i, e) == [ok |-> TRUE, g1 |-> IntOf(Sub(s, i, i + 3)),
                       now |-> ~Digits4At(s, e),
                       g2 |-> IF Digits4At(s, e) THEN IntOf(Sub(s, e, e + 3)) ELSE 0]
      first(starts) == IF starts = {} THEN [ok |-> FALSE]
                       ELSE groups(SetMin(starts), YearRangeEnd(s, SetMin(starts)))
  IN first({i \in 1..Len(s) : YearRangeOK(s, i)})

\* (\d{1,2}) \s* unit: the number of the leftmost match, -1 when there is none;
\* units holds the shortest form of each alternative (mo for months?|mos?)
CountAt(s, i, n, units) == /\ \A c \in i..(i + n - 1) : c <= Len(s) /\ IsDigit(s[c])
                           /\ \E u \in units : At(s, i + n + WsRun(s, i + n), u)
CountOf(s, units) ==
  LET starts == {i \in 1..Len(s) : CountAt(s, i, 1, units) \/ CountAt(s, i, 2, units)}
  IN IF starts = {} THEN -1
     ELSE LET i == SetMin(starts)
          IN IF CountAt(s, i, 2, units) THEN IntOf(Sub(s, i, i + 1)) ELSE IntOf(Sub(s, i, i))

\* the months of a range with the end month left out
ExclusiveMonths(start_year, start_month, end_year, end_month) ==
  Max(0, (end_year - start_year) * 12 + (end_month - start_month))
\* duration of _parse_duration_and_dates: both end months are counted
InclusiveMonths(start_year, start_month, end_year, end_month) ==
  Max(0, (end_year - start_year) * 12 + (end_month - start_month) + 1)

\* ResumeParser._parse_duration_and_dates; today is datetime.date.today() as [year, month]
DurationAndDates(text_lower, month_range, range_match, today) ==
  LET date(y, m) == Pad(y, 4) \o <<"-">> \o Pad(m, 2)
  IN IF month_range.ok
     THEN LET start_month == MonthNums[month_range.g1]
              start_year == month_range.g2
              now == month_range.g3 > Len(MonthAlts)
              end_year == IF now THEN today.year
                          ELSE IF month_range.g4 # 0 THEN month_range.g4 ELSE start_year
              end_month == IF now THEN today.month ELSE MonthNums[month_range.g3]
          IN <<InclusiveMonths(start_year, start_month, end_year, end_month),
               date(start_year, start_month), date(end_year, end_month)>>
     ELSE IF range_match.ok
     THEN LET start_year == range_match.g1
              end_year == IF range_match.now THEN today.year ELSE range_match.g2
              end_month == IF range_match.now THEN today.month ELSE 12
              start_month == 1
          IN <<InclusiveMonths(start_year, start_month, end_year, end_month),
               date(start_year, start_month), date(end_year, end_month)>>
     ELSE IF CountOf(text_lower, {<<"m","o">>}) >= 0
     THEN <<CountOf(text_lower, {<<"m","o">>}), <<>>, <<>> >>
     ELSE IF CountOf(text_lower, {<<"y","e","a","r">>, <<"y","r">>}) >= 0
     THEN <<CountOf(text_lower, {<<"y","e","a","r">>, <<"y","r">>}) * 12, <<>>, <<>> >>
     ELSE <<0, <<>>, <<>> >>
ParseDurationAndDates(text, today) ==
  DurationAndDates(Lower(text), MonthRange(Lower(text)), YearRange(Lower(text)), today)

\* re.match(r'^(bullet|\-|\*|\(cid:127\))', line); the bullet glyph is removed by _clean_text
IsBullet(line) == line # <<>> /\ (line[1] \in {"-", "*"} \/ StartsWith(line, <<"(","c","i","d",":","1","2","7",")">>))
\* re.sub(r'^(bullet|\-|\*|\(cid:127\))\s*', '', line).strip()
StripBullet(line) == IF line # <<>> /\ line[1] \in {"-", "*"} THEN Strip(Sub(line, 2, Len(line)))
                     ELSE IF StartsWith(line, <<"(","c","i","d",":","1","2","7",")">>) THEN Strip(Sub(line, 10, Len(line)))
                     ELSE Strip(line)

\* s with every occurrence of lit removed, left to right (str.replace(lit, ''))
RECURSIVE Remove(_, _)
Remove(s, lit) == IF Find(s, lit) = 0 THEN s
                  ELSE Sub(s, 1, Find(s, lit) - 1) \o Remove(Sub(s, Find(s, lit) + Len(lit), Len(s)), lit)

\* ResumeParser._clean_string: of its bullet list only the hyphen can occur in cleaned text
CleanString(s) ==
  LET s1 == Strip(s)
      s2 == Strip(Sub(s1, RunOf(s1, 1, {"-"}) + 1, Len(s1)))
  IN Strip(Remove(s2, <<"(","c","i","d",":","1","2","7",")">>))

\* the location and company indicators of extract_experience_details
LocationWords == <<<<"i","n","d","i","a">>, <<"b","a","n","g","a","l","o","r","e">>, <<"d","e","l","h","i">>, <<"m","u","m","b","a","i">>, <<"u","s","a">>, <<"i","n","c">>, <<"l","t","d">>,
                   <<"l","l","c">>, <<"c","o","r","p">>, <<"l","a","b","s">>, <<"a","i">>, <<"t","e","c","h","n","o","l","o","g","y">>>>
HasLocation(line) == \E w \in 1..Len(LocationWords) : Contains(Lower(line), LocationWords[w])

\* the entry type from the role title alone
ExperienceType(role) ==
  LET role_lower == Lower(role)
  IN IF Contains(role_lower, <<"i","n","t","e","r","n">>) THEN "internship"
     ELSE IF Contains(role_lower, <<"t","r","a","i","n","i","n","g">>) \/ Contains(role_lower, <<"t","r","a","i","n","e","e">>) THEN "training"
     ELSE IF Contains(role_lower, <<"f","r","e","e","l","a","n","c","e">>) \/ Contains(role_lower, <<"c","o","n","t","r","a","c","t","o","r">>)
     THEN (IF Contains(role_lower, <<"f","r","e","e","l","a","n","c","e">>) THEN "freelance" ELSE "contract")
     ELSE "full-time"

\* the indices i of seq, ascending, whose element satisfies Test
IndicesWhere(seq, Test(_)) == SelectSeq([i \in 1..Len(seq) |-> i], LAMBDA i : Test(seq[i]))

\* the entry without the type in the default: a duration of 0 becomes 12 months
ExperienceRecordOneDefault(role, company, exp_type, responsibilities, parsed) ==
  LET defaulted == parsed[1] = 0
  IN [role |-> Trunc(role, 100),
      company |-> Trunc(company, 100),
      duration_months |-> IF defaulted THEN 12 ELSE parsed[1],
      type |-> exp_type,
      responsibilities |-> responsibilities,
      start_date |-> IF defaulted THEN <<>> ELSE parsed[2],
      end_date |-> IF defaulted THEN <<>> ELSE parsed[3]]
\* the entry without the default: duration and dates as _parse_duration_and_dates gives them
ExperienceRecordAsParsed(role, company, exp_type, responsibilities, parsed) ==
  [role |-> Trunc(role, 100),
   company |-> Trunc(company, 100),
   duration_months |-> parsed[1],
   type |-> exp_type,
   responsibilities |-> responsibilities,
   start_date |-> parsed[2],
   end_date |-> parsed[3]]
\* the entry both branches of extract_experience_details append: a duration of 0
\* is replaced by the default of the entry type and the dates are dropped
ExperienceRecord(role, company, exp_type, responsibilities, parsed) ==
  LET defaulted == parsed[1] = 0
  IN [role |-> Trunc(role, 100),
      company |-> Trunc(company, 100),
      duration_months |-> IF defaulted THEN (IF exp_type = "internship" THEN 6 ELSE 12) ELSE parsed[1],
      type |-> exp_type,
      responsibilities |-> responsibilities,
      start_date |-> IF defaulted THEN <<>> ELSE parsed[2],
      end_date |-> IF defaulted THEN <<>> ELSE parsed[3]]

\* one iteration of the loop over date_indices: the entry of the j-th date line,
\* as a list of one entry, or the empty list when no role is found
ExperienceEntry(exp_lines, date_indices, j, today) ==
  LET record(role, company, responsibilities, date_line) ==
        ExperienceRecord(role, company, ExperienceType(role),
                         [k \in 1..Len(responsibilities) |-> CleanString(responsibilities[k])],
                         ParseDurationAndDates(date_line, today))
      bulleted(after) ==
        SelectSeq([k \in 1..Len(after) |-> IF IsBullet(after[k]) THEN StripBullet(after[k]) ELSE <<>>],
                  LAMBDA r : Len(r) > 5)
      responsibilities(date_idx, end_idx) ==
        bulleted([k \in 1..(end_idx - date_idx - 1) |-> Strip(exp_lines[date_idx + k])])
      entry(date_idx, role0, company0) ==
        IF role0 = <<>> THEN <<>>
        ELSE << record(CleanString(role0), CleanString(company0),
                       responsibilities(date_idx, IF j + 1 <= Len(date_indices) THEN date_indices[j + 1]
                                                  ELSE Len(exp_lines) + 1),
                       Strip(exp_lines[date_idx])) >>
      \* the same-line fallback splits the date line on an en dash, which cleaned
      \* text does not hold: it leaves the role empty
      named(date_idx, pre_date_lines, n, swap) ==
        entry(date_idx,
              IF n >= 2 THEN (IF swap THEN pre_date_lines[n - 1] ELSE pre_date_lines[n])
              ELSE IF n = 1 THEN pre_date_lines[1] ELSE <<>>,
              IF n >= 2 THEN (IF swap THEN pre_date_lines[n] ELSE pre_date_lines[n - 1]) ELSE <<>>)
      located(date_idx, pre_date_lines, n) ==
        named(date_idx, pre_date_lines, n,
              n >= 2 /\ HasLocation(pre_date_lines[n]) /\ ~HasLocation(pre_date_lines[n - 1]))
      preceded(date_idx, pre_date_lines) == located(date_idx, pre_date_lines, Len(pre_date_lines))
      from(date_idx, start_idx) ==
        preceded(date_idx, SelectSeq([k \in 1..(date_idx - start_idx) |-> Strip(exp_lines[start_idx + k - 1])],
                                     LAMBDA l : l # <<>> /\ ~IsBullet(l)))
      at(date_idx) == from(date_idx, Max(1, date_idx - 4))
  IN at(date_indices[j])

RECURSIVE ExperienceEntries(_, _, _, _)
ExperienceEntries(exp_lines, date_indices, j, today) ==
  IF j > Len(date_indices) THEN <<>>
  ELSE ExperienceEntry(exp_lines, date_indices, j, today)
       \o ExperienceEntries(exp_lines, date_indices, j + 1, today)

\* the branch taken when the section has no date line: the text is split on blank
\* lines (joined section lines hold none, so there is one block) and a block
\* without a date line is skipped
FallbackEntries(exp_lines, today) ==
  LET record(named, bullets, date_line) ==
        ExperienceRecord(named[1], IF Len(named) >= 2 THEN named[2] ELSE <<>>,
                         IF Contains(Lower(named[1]), <<"i","n","t","e","r","n">>) THEN "internship" ELSE "full-time",
                         [k \in 1..Len(bullets) |-> StripBullet(bullets[k])],
                         ParseDurationAndDates(date_line, today))
      entry(lines, dated, named) ==
        IF lines = <<>> \/ dated = <<>> \/ named = <<>> THEN <<>>
        ELSE << record(named, SelectSeq(lines, IsBullet), dated[1]) >>
      split(lines, dated) ==
        entry(lines, dated, SelectSeq(lines, LAMBDA l : ~IsBullet(l) /\ (dated = <<>> \/ l # dated[1])))
      read(lines) == split(lines, SelectSeq(lines, IsDateLine))
  IN IF Len(Strip(Join(exp_lines, <<NL>>))) < 10 THEN <<>>
     ELSE read(SelectSeq([i \in 1..Len(exp_lines) |-> Strip(exp_lines[i])], LAMBDA l : l # <<>>))

\* ResumeParser.extract_experience_details, on the mapping _get_sections returns
ExtractExperienceDetails(sections, today) ==
  LET entries(exp_lines, date_indices) ==
        IF exp_lines = <<>> THEN <<>>
        ELSE IF date_indices = <<>> THEN FallbackEntries(exp_lines, today)
        ELSE ExperienceEntries(exp_lines, date_indices, 1, today)
      read(exp_lines) == entries(exp_lines, IndicesWhere(exp_lines, IsDateLine))
  IN read(SectionLines(sections, "experience"))

(***************************************************************************)
(* Skill tables of src/python/resume_parser.py.  The taxonomy lists keep   *)
(* the entries that occur in the documents of the corpus below, in the     *)
(* order of the source; an entry that occurs in no document matches        *)
(* nothing.  The post-processing tables are complete.                      *)
(***************************************************************************)
PROGRAMMING_LANGUAGES == <<<<"p","y","t","h","o","n">>, <<"j","a","v","a","s","c","r","i","p","t">>, <<"j","a","v","a">>, <<"r">>, <<"c">>>>
FRAMEWORKS_LIBRARIES == <<<<"h","t","m","l">>, <<"r","e","a","c","t">>, <<"a","n","g","u","l","a","r">>, <<"n","o","d","e",".","j","s">>, <<"t","a","i","l","w","i","n","d">>>>
TOOLS_PLATFORMS == <<<<"d","o","c","k","e","r">>, <<"a","w","s">>, <<"d","o","c","k","e","r","-","c","o","m","p","o","s","e">>, <<"b","a","s","h">>, <<"s","h","e","l","l">>, <<"r","e","n","d","e","r">>, <<"s","t","m","3","2">>>>
DATABASES == <<<<"p","o","s","t","g","r","e","s">>, <<"p","o","s","t","g","r","e","s","q","l">>>>
SOFT_SKILLS == <<<<"c","o","m","m","u","n","i","c","a","t","i","o","n">>, <<"t","e","a","m","w","o","r","k">>, <<"l","e","a","d","e","r","s","h","i","p">>, <<"p","r","o","b","l","e","m","-","s","o","l","v","i","n","g">>, <<"c","o","l","l","a","b","o","r","a","t","i","o","n">>>>
NOISE_PHRASES == <<<<"h","a","n","d","s","-","o","n">>, <<"t","e","c","h","n","i","c","a","l"," ","s","k","i","l","l","s">>, <<"p","r","o","f","i","c","i","e","n","t"," ","i","n">>, <<"f","a","m","i","l","i","a","r"," ","w","i","t","h">>>>
TECHNICAL_CONCEPTS == <<<<"n","l","p">>, <<"r","t","o","s">>, <<"u","a","r","t">>, <<"f","r","e","e","r","t","o","s">>, <<"s","h","e","l","l"," ","s","c","r","i","p","t","i","n","g">>, <<"b","a","s","h">>,
                        <<"k","e","r","n","e","l">>, <<"m","o","n","i","t","o","r","i","n","g">>>>
\* key, display name
SKILL_CANONICAL == <<
  <<<<"n","l","p">>, <<"N","L","P">>>>, <<<<"p","y","t","h","o","n">>, <<"P","y","t","h","o","n">>>>, <<<<"j","a","v","a","s","c","r","i","p","t">>, <<"J","a","v","a","S","c","r","i","p","t">>>>, <<<<"j","a","v","a">>, <<"J","a","v","a">>>>, <<<<"c">>, <<"C">>>>,
  <<<<"r">>, <<"R">>>>, <<<<"n","o","d","e",".","j","s">>, <<"N","o","d","e",".","j","s">>>>, <<<<"r","e","a","c","t">>, <<"R","e","a","c","t">>>>, <<<<"a","n","g","u","l","a","r">>, <<"A","n","g","u","l","a","r">>>>,
  <<<<"t","a","i","l","w","i","n","d">>, <<"T","a","i","l","w","i","n","d"," ","C","S","S">>>>, <<<<"p","o","s","t","g","r","e","s">>, <<"P","o","s","t","g","r","e","S","Q","L">>>>,
  <<<<"p","o","s","t","g","r","e","s","q","l">>, <<"P","o","s","t","g","r","e","S","Q","L">>>>, <<<<"d","o","c","k","e","r">>, <<"D","o","c","k","e","r">>>>,
  <<<<"d","o","c","k","e","r","-","c","o","m","p","o","s","e">>, <<"D","o","c","k","e","r"," ","C","o","m","p","o","s","e">>>>, <<<<"a","w","s">>, <<"A","W","S">>>>, <<<<"r","e","n","d","e","r">>, <<"R","e","n","d","e","r">>>>,
  <<<<"r","t","o","s">>, <<"R","T","O","S">>>>, <<<<"u","a","r","t">>, <<"U","A","R","T">>>>, <<<<"s","t","m","3","2">>, <<"S","T","M","3","2">>>>,
  <<<<"s","h","e","l","l">>, <<"S","h","e","l","l">>>>, <<<<"f","r","e","e","r","t","o","s">>, <<"F","r","e","e","R","T","O","S">>>> >>
CANONICAL_MAPPING == <<
  <<<<"L","i","n","u","x"," ","k","e","r","n","e","l">>, <<"D","e","v","i","c","e"," ","D","r","i","v","e","r","s">>>>, <<<<"L","i","n","u","x"," ","K","e","r","n","e","l">>, <<"D","e","v","i","c","e"," ","D","r","i","v","e","r","s">>>>,
  <<<<"K","e","r","n","e","l">>, <<"D","e","v","i","c","e"," ","D","r","i","v","e","r","s">>>>, <<<<"D","e","v","i","c","e"," ","d","r","i","v","e","r","s">>, <<"D","e","v","i","c","e"," ","D","r","i","v","e","r","s">>>>,
  <<<<"D","e","v","i","c","e"," ","D","r","i","v","e","r","s">>, <<"D","e","v","i","c","e"," ","D","r","i","v","e","r","s">>>>, <<<<"D","e","v","i","c","e"," ","d","r","i","v","e","r">>, <<"D","e","v","i","c","e"," ","D","r","i","v","e","r","s">>>>,
  <<<<"D","e","v","i","c","e"," ","D","r","i","v","e","r">>, <<"D","e","v","i","c","e"," ","D","r","i","v","e","r","s">>>>, <<<<"Z","e","p","h","y","r">>, <<"R","T","O","S">>>>, <<<<"F","r","e","e","R","T","O","S">>, <<"R","T","O","S">>>>,
  <<<<"F","r","e","e","r","t","o","s">>, <<"R","T","O","S">>>>, <<<<"L","i","n","u","x"," ","C","l","i">>, <<"L","i","n","u","x"," ","C","L","I">>>>, <<<<"L","i","n","u","x"," ","c","l","i">>, <<"L","i","n","u","x"," ","C","L","I">>>>,
  <<<<"S","h","e","l","l">>, <<"S","h","e","l","l"," ","S","c","r","i","p","t","i","n","g">>>>, <<<<"s","h","e","l","l">>, <<"S","h","e","l","l"," ","S","c","r","i","p","t","i","n","g">>>>,
  <<<<"S","T","M","3","2">>, <<"M","i","c","r","o","c","o","n","t","r","o","l","l","e","r","s">>>>, <<<<"S","t","m","3","2">>, <<"M","i","c","r","o","c","o","n","t","r","o","l","l","e","r","s">>>>,
  <<<<"R","a","s","p","b","e","r","r","y"," ","P","i">>, <<"M","i","c","r","o","c","o","n","t","r","o","l","l","e","r","s">>>>, <<<<"R","a","s","p","b","e","r","r","y"," ","p","i">>, <<"M","i","c","r","o","c","o","n","t","r","o","l","l","e","r","s">>>> >>
VAGUE_CONCEPTS == {<<"A","n","a","l","y","t","i","c","s">>, <<"M","o","n","i","t","o","r","i","n","g">>, <<"T","e","l","e","m","e","t","r","y">>, <<"O","b","s","e","r","v","a","b","i","l","i","t","y">>,
  <<"S","y","s","t","e","m"," ","R","e","l","i","a","b","i","l","i","t","y">>, <<"S","y","s","t","e","m"," ","r","e","l","i","a","b","i","l","i","t","y">>, <<"a","n","a","l","y","t","i","c","s">>, <<"m","o","n","i","t","o","r","i","n","g">>, <<"t","e","l","e","m","e","t","r","y">>,
  <<"o","b","s","e","r","v","a","b","i","l","i","t","y">>}
INVALID_SKILLS == {<<"R">>}
SOFT_SKILL_CANONICAL == << <<<<"p","r","o","b","l","e","m","-","s","o","l","v","i","n","g">>, <<"P","r","o","b","l","e","m","-","S","o","l","v","i","n","g">>>> >>

\* dict.get(key, default) on a table of pairs
Lookup(table, key, default) ==
  LET found(rows) == IF rows = {} THEN default ELSE table[SetMin(rows)][2]
  IN found({i \in 1..Len(table) : table[i][1] = key})
InList(list, x) == \E i \in 1..Len(list) : list[i] = x
all_known_skills == PROGRAMMING_LANGUAGES \o FRAMEWORKS_LIBRARIES \o TOOLS_PLATFORMS \o DATABASES

\* re.sub(r'^[cs]+|[cs]+$', '', s): the characters of cs stripped from both ends
StripChars(s, cs) ==
  LET a == RunOf(s, 1, cs)
      rest == Sub(s, a + 1, Len(s))
      b == IF rest = <<>> THEN 0
           ELSE IF \A i \in 1..Len(rest) : rest[i] \in cs THEN Len(rest)
           ELSE Len(rest) - (CHOOSE i \in 1..Len(rest) : rest[i] \notin cs /\ \A j \in (i+1)..Len(rest) : rest[j] \in cs)
  IN Sub(rest, 1, Len(rest) - b)

RECURSIVE RemoveAll(_, _)
RemoveAll(s, lits) == IF lits = <<>> THEN s ELSE RemoveAll(Remove(s, Head(lits)), Tail(lits))

\* the length of the separator that starts at p, 0 when none does:
\* kind "paren" is [;,/]|\band\b and kind "line" is [;,]|\s&\s|\band\b
SepLen(kind, s, p) ==
  IF s[p] \in {";", ","} \/ (kind = "paren" /\ s[p] = "/") THEN 1
  ELSE IF kind = "line" /\ IsSpace(s[p]) /\ p + 2 <= Len(s) /\ s[p+1] = "&" /\ IsSpace(s[p+2]) THEN 3
  ELSE IF AtCI(s, p, <<"a","n","d">>) /\ WordBoundary(s, p) /\ WordBoundary(s, p + 3) THEN 3
  ELSE 0
\* re.split of s from position start on, on the separators of kind
RECURSIVE SplitRe(_, _, _)
SplitRe(kind, s, start) ==
  LET seps == {p \in start..Len(s) : SepLen(kind, s, p) > 0}
      p == SetMin(seps)
  IN IF seps = {} THEN <<Sub(s, start, Len(s))>>
     ELSE <<Sub(s, start, p - 1)>> \o SplitRe(kind, s, p + SepLen(kind, s, p))
\* the stripped, non-empty pieces
Pieces(kind, s) == SelectSeq([i \in 1..Len(SplitRe(kind, s, 1)) |-> Strip(SplitRe(kind, s, 1)[i])],
                             LAMBDA x : x # <<>>)

\* the first match of \(([^\)]+)\) in s from p on: <<open, close>>, or <<0, 0>>
RECURSIVE ParenAt(_, _)
ParenAt(s, p) ==
  IF p > Len(s) THEN <<0, 0>>
  ELSE IF s[p] = "(" /\ (\E j \in (p+2)..Len(s) : s[j] = ")") /\ s[p+1] # ")"
       THEN <<p, CHOOSE j \in (p+2)..Len(s) : s[j] = ")" /\ \A k \in (p+1)..(j-1) : s[k] # ")">>
       ELSE ParenAt(s, p + 1)
\* re.findall(r'\(([^\)]+)\)', s)
RECURSIVE ParenBlocks(_, _)
ParenBlocks(s, p) == LET m == ParenAt(s, p)
                     IN IF m[1] = 0 THEN <<>>
                        ELSE <<Sub(s, m[1] + 1, m[2] - 1)>> \o ParenBlocks(s, m[2] + 1)
\* re.sub(r'\([^\)]+\)', '', s)
RECURSIVE RemoveParens(_, _)
RemoveParens(s, p) == LET m == ParenAt(s, p)
                      IN IF m[1] = 0 THEN Sub(s, p, Len(s))
                         ELSE Sub(s, p, m[1] - 1) \o RemoveParens(s, m[2] + 1)
RECURSIVE Flatten(_)
Flatten(ss) == IF ss = <<>> THEN <<>> ELSE Head(ss) \o Flatten(Tail(ss))

\* ResumeParser.extract_skill_items_from_line
ExtractSkillItemsFromLine(line) ==
  LET items(group_label, raw) ==
        (IF group_label # <<>> THEN <<<<"G","R","O","U","P",":">> \o group_label>> ELSE <<>>)
        \o Flatten([b \in 1..Len(ParenBlocks(raw, 1)) |-> Pieces("paren", ParenBlocks(raw, 1)[b])])
        \o Pieces("line", Strip(RemoveParens(raw, 1)))
      split(raw, colon) == items(IF colon = 0 THEN <<>> ELSE Strip(Sub(raw, 1, colon - 1)),
                                 IF colon = 0 THEN raw ELSE Strip(Sub(raw, colon + 1, Len(raw))))
      labelled(raw) == split(raw, Find(raw, <<":">>))
      unbulleted(raw) ==
        labelled(Strip(Remove(Sub(raw, RunOf(raw, 1, {" ", "-", "*"}) + 1, Len(raw)), <<"(","c","i","d",":","1","2","7",")">>)))
  IN unbulleted(Strip(line))

\* the headings normalize_skill refuses
HeadingWords == {<<"s","k","i","l","l","s">>, <<"t","e","c","h","n","i","c","a","l"," ","s","k","i","l","l","s">>, <<"p","r","o","g","r","a","m","m","i","n","g">>, <<"l","a","n","g","u","a","g","e","s">>, <<"f","r","a","m","e","w","o","r","k","s">>,
                 <<"l","i","b","r","a","r","i","e","s">>, <<"t","o","o","l","s">>, <<"d","a","t","a","b","a","s","e","s">>, <<"t","e","c","h","n","o","l","o","g","i","e","s">>, <<"e","x","p","e","r","t","i","s","e">>}

\* ResumeParser.normalize_skill; the empty string stands for None
NormalizeSkill(skill, raw_line) ==
  LET checked(is_group_label, original, s) ==
        IF Len(s) < 2 \/ Len(s) > 50
        THEN (IF Len(s) = 1 /\ s \in {<<"c">>, <<"r">>}
                 /\ (raw_line = <<>> \/ WordSearch(Lower(original), Lower(raw_line)))
              THEN s ELSE <<>>)
        ELSE IF ~is_group_label /\ s \in HeadingWords THEN <<>>
        ELSE IF InList(SOFT_SKILLS, s) THEN <<>>
        ELSE IF \A i \in 1..Len(s) : IsDigit(s[i]) \/ ~IsWordChar(s[i]) THEN <<>>
        ELSE s
      denoised(is_group_label, original, lowered) ==
        checked(is_group_label, original,
                StripChars(IF is_group_label THEN lowered ELSE RemoveAll(lowered, NOISE_PHRASES),
                           {" ", "-", ":", "*"}))
      stripped(is_group_label, original) == denoised(is_group_label, original, Lower(original))
      labelled(is_group_label) ==
        stripped(is_group_label, Strip(IF is_group_label THEN Sub(skill, 7, Len(skill)) ELSE skill))
  IN IF skill = <<>> THEN <<>> ELSE labelled(StartsWith(skill, <<"G","R","O","U","P",":">>))

\* ResumeParser.format_skill_display
FormatSkillDisplay(skill) ==
  LET display(skill_lower) ==
        Lookup(SKILL_CANONICAL, skill_lower,
               IF skill_lower \in {<<"a","p","i">>, <<"a","p","i","s">>} THEN <<"A","P","I">>
               ELSE IF skill_lower \in {<<"m","l">>, <<"a","i">>, <<"n","l","p">>} THEN Upper(skill_lower)
               ELSE Title(skill_lower))
  IN display(Lower(Strip(skill)))
\* ResumeParser.format_soft_skill
FormatSoftSkill(skill) == LET display(key) == Lookup(SOFT_SKILL_CANONICAL, key, Title(key))
                          IN display(Lower(Strip(skill)))

\* ResumeParser.categorize_skill
CategorizeSkill(skill) ==
  LET skill_lower == Lower(skill)
  IN IF skill_lower \in {<<"h","t","m","l">>, <<"c","s","s">>} THEN "frameworks_libraries"
     ELSE IF skill_lower \in {<<"r","e","n","d","e","r">>, <<"v","e","r","c","e","l">>} THEN "tools_platforms"
     ELSE IF InList(PROGRAMMING_LANGUAGES, skill_lower) THEN "programming_languages"
     ELSE IF InList(FRAMEWORKS_LIBRARIES, skill_lower) THEN "frameworks_libraries"
     ELSE IF InList(TOOLS_PLATFORMS, skill_lower) THEN "tools_platforms"
     ELSE IF InList(DATABASES, skill_lower) THEN "databases"
     ELSE "technical_skills"

Reverse(seq) == [i \in 1..Len(seq) |-> seq[Len(seq) + 1 - i]]
\* list(S) for a set of strings: the iteration order of a set depends on the hash
\* seed of the process; seed 0 and seed 1 stand for two orders a run can produce
ListOfSet(S, seed) == LET ordered(sorted) == IF seed = 0 THEN sorted ELSE Reverse(sorted)
                      IN ordered(SortedSeq(S))
\* sorted(seq, key=lambda s: s.lower()): stable, so equal keys keep the order of seq
RECURSIVE SortedByLower(_)
SortedByLower(seq) ==
  IF seq = <<>> THEN <<>>
  ELSE LET i == CHOOSE k \in 1..Len(seq) :
                  /\ \A j \in 1..Len(seq) : ~StrLess(Lower(seq[j]), Lower(seq[k]))
                  /\ \A j \in 1..(k-1) : Lower(seq[j]) # Lower(seq[k])
       IN <<seq[i]>> \o SortedByLower(Sub(seq, 1, i - 1) \o Sub(seq, i + 1, Len(seq)))

\* a list left in the order it was built in
AsBuilt(seq) == seq
\* sorted(seq) for a list of strings
RECURSIVE SortedList(_)
SortedList(seq) ==
  IF seq = <<>> THEN <<>>
  ELSE LET i == CHOOSE k \in 1..Len(seq) :
                  /\ \A j \in 1..Len(seq) : ~StrLess(seq[j], seq[k])
                  /\ \A j \in 1..(k-1) : seq[j] # seq[k]
       IN <<seq[i]>> \o SortedList(Sub(seq, 1, i - 1) \o Sub(seq, i + 1, Len(seq)))

TechnicalCategories == <<"technical_skills", "programming_languages", "frameworks_libraries",
                         "tools_platforms", "databases">>
\* the display names a set of <<category, name>> pairs holds for one category
InCategory(pairs, category) == {pr[2] : pr \in {q \in pairs : q[1] = category}}

\* ResumeParser.extract_skills: the six lists, each sorted on the lower-cased name
ExtractSkills(text_content, sections, seed) ==
  LET skills_lines == SectionLines(sections, "skills")
      pair(k) == <<CategorizeSkill(k), FormatSkillDisplay(k)>>
      lists(found, soft) ==
        [c \in RangeOf(TechnicalCategories) \cup {"soft_skills"} |->
           SortedByLower(ListOfSet(IF c = "soft_skills" THEN soft ELSE InCategory(found, c), seed))]
      classified(resume_text_lower, text_lower, normalized) ==
        LET Known == RangeOf(all_known_skills)
            Hits(n) == {k \in Known : WordSearch(k, n) /\ WordSearch(k, resume_text_lower)}
            from_section == UNION {{pair(k) : k \in Hits(n)} : n \in normalized}
            concepts == {<<"technical_skills", FormatSkillDisplay(n)>> :
                           n \in {m \in normalized : Hits(m) = {} /\ InList(TECHNICAL_CONCEPTS, m)
                                                     /\ WordSearch(m, resume_text_lower)}}
            keyword == IF skills_lines = <<>>
                       THEN {pair(k) : k \in {j \in Known : WordSearch(j, text_lower)}}
                       ELSE {}
            soft == {FormatSoftSkill(s) : s \in {j \in RangeOf(SOFT_SKILLS) : WordSearch(j, text_lower)}}
        IN lists(from_section \cup concepts \cup keyword, soft)
      lowered(resume_text_lower) ==
        classified(resume_text_lower,
                   IF skills_lines # <<>> THEN Lower(Join(skills_lines, <<NL>>)) ELSE resume_text_lower,
                   UNION {{NormalizeSkill(item, skills_lines[l]) :
                             item \in RangeOf(ExtractSkillItemsFromLine(skills_lines[l]))} :
                          l \in 1..Len(skills_lines)} \ {<<>>})
  IN lowered(Lower(text_content))

\* re.search(r'\b' + w1 + r'\s+' + w2 + r'\b', s, re.IGNORECASE), w1 and w2 in lower case
TwoWordSearch(w1, w2, s) ==
  \E i \in 1..Len(s) :
    /\ AtCI(s, i, w1) /\ WordBoundary(s, i)
    /\ WsRun(s, i + Len(w1)) >= 1
    /\ AtCI(s, i + Len(w1) + WsRun(s, i + Len(w1)), w2)
    /\ WordBoundary(s, i + Len(w1) + WsRun(s, i + Len(w1)) + Len(w2))
WordSearchCI(lit, s) == WordSearch(lit, Lower(s))

\* ResumeParser._harvest_skills_from_texts: the set of <<category, name>> pairs harvested
HarvestSkillsFromTexts(texts) ==
  LET combined == Join(SelectSeq(texts, LAMBDA t : t # <<>>), <<NL>>)
      known == {<<CategorizeSkill(k), FormatSkillDisplay(k)>> :
                  k \in {j \in RangeOf(all_known_skills) : AlnumBoundedSearch(j, combined)}}
      concepts == {<<"technical_skills", FormatSkillDisplay(c)>> :
                     c \in {j \in RangeOf(TECHNICAL_CONCEPTS) : AlnumBoundedSearch(j, combined)}}
      Rule(hit, category, name) == IF hit THEN {<<category, name>>} ELSE {}
  IN IF texts = <<>> THEN {}
     ELSE known \cup concepts
       \cup Rule(WordSearchCI(<<"h","s","i","2","c">>, combined), "technical_skills", <<"I","2","C">>)
       \cup Rule(WordSearchCI(<<"f","r","e","e","r","t","o","s">>, combined), "technical_skills", <<"R","T","O","S">>)
       \cup Rule(TwoWordSearch(<<"z","e","p","h","y","r">>, <<"r","t","o","s">>, combined), "technical_skills", <<"R","T","O","S">>)
       \cup Rule(TwoWordSearch(<<"l","i","n","u","x">>, <<"k","e","r","n","e","l">>, combined), "technical_skills", <<"L","i","n","u","x"," ","k","e","r","n","e","l">>)
       \cup Rule(TwoWordSearch(<<"k","e","r","n","e","l">>, <<"m","o","d","u","l","e">>, combined), "technical_skills", <<"D","e","v","i","c","e"," ","d","r","i","v","e","r","s">>)
       \cup Rule(TwoWordSearch(<<"d","e","v","i","c","e">>, <<"d","r","i","v","e","r">>, combined)
                 \/ TwoWordSearch(<<"c","h","a","r","a","c","t","e","r">>, <<"d","r","i","v","e","r">>, combined), "technical_skills", <<"D","e","v","i","c","e"," ","d","r","i","v","e","r","s">>)
       \cup Rule(TwoWordSearch(<<"s","h","e","l","l">>, <<"s","c","r","i","p","t","i","n","g">>, combined), "tools_platforms", <<"S","h","e","l","l">>)
       \cup Rule(WordSearchCI(<<"s","t","m","3","2">>, combined), "technical_skills", <<"S","T","M","3","2">>)
       \cup Rule(WordSearchCI(<<"s","t","m","3","2">>, combined), "technical_skills", <<"M","i","c","r","o","c","o","n","t","r","o","l","l","e","r","s">>)
       \cup Rule(WordSearchCI(<<"u","a","r","t">>, combined), "technical_skills", <<"U","A","R","T">>)

\* verb, soft skills
verb_soft_skill_map == <<
  <<<<"c","o","l","l","a","b","o","r","a","t","e","d">>, {<<"c","o","l","l","a","b","o","r","a","t","i","o","n">>, <<"t","e","a","m","w","o","r","k">>}>>,
  <<<<"c","o","o","p","e","r","a","t","e","d">>, {<<"c","o","l","l","a","b","o","r","a","t","i","o","n">>, <<"t","e","a","m","w","o","r","k">>}>>,
  <<<<"p","a","r","t","n","e","r","e","d">>, {<<"t","e","a","m","w","o","r","k">>, <<"c","o","l","l","a","b","o","r","a","t","i","o","n">>}>>,
  <<<<"d","e","v","e","l","o","p","e","d">>, {<<"p","r","o","b","l","e","m"," ","s","o","l","v","i","n","g">>, <<"t","e","c","h","n","i","c","a","l"," ","t","h","i","n","k","i","n","g">>}>>,
  <<<<"d","e","s","i","g","n","e","d">>, {<<"p","r","o","b","l","e","m"," ","s","o","l","v","i","n","g">>, <<"c","r","e","a","t","i","v","i","t","y">>}>>,
  <<<<"i","m","p","r","o","v","e","d">>, {<<"p","r","o","b","l","e","m"," ","s","o","l","v","i","n","g">>, <<"a","n","a","l","y","t","i","c","a","l"," ","t","h","i","n","k","i","n","g">>}>>,
  <<<<"o","p","t","i","m","i","z","e","d">>, {<<"a","n","a","l","y","t","i","c","a","l"," ","t","h","i","n","k","i","n","g">>, <<"p","r","o","b","l","e","m"," ","s","o","l","v","i","n","g">>}>>,
  <<<<"e","v","a","l","u","a","t","e","d">>, {<<"a","n","a","l","y","t","i","c","a","l"," ","t","h","i","n","k","i","n","g">>, <<"c","r","i","t","i","c","a","l"," ","t","h","i","n","k","i","n","g">>}>>,
  <<<<"l","e","d">>, {<<"l","e","a","d","e","r","s","h","i","p">>}>>, <<<<"m","a","n","a","g","e","d">>, {<<"l","e","a","d","e","r","s","h","i","p">>}>>, <<<<"m","e","n","t","o","r","e","d">>, {<<"l","e","a","d","e","r","s","h","i","p">>}>>,
  <<<<"p","r","e","s","e","n","t","e","d">>, {<<"c","o","m","m","u","n","i","c","a","t","i","o","n">>, <<"p","r","e","s","e","n","t","a","t","i","o","n">>}>>,
  <<<<"c","o","m","m","u","n","i","c","a","t","e","d">>, {<<"c","o","m","m","u","n","i","c","a","t","i","o","n">>}>>,
  <<<<"n","e","g","o","t","i","a","t","e","d">>, {<<"c","o","m","m","u","n","i","c","a","t","i","o","n">>, <<"n","e","g","o","t","i","a","t","i","o","n">>}>>,
  <<<<"d","e","l","e","g","a","t","e","d">>, {<<"l","e","a","d","e","r","s","h","i","p">>}>>,
  <<<<"c","o","o","r","d","i","n","a","t","e","d">>, {<<"t","e","a","m","w","o","r","k">>, <<"c","o","l","l","a","b","o","r","a","t","i","o","n">>}>>,
  <<<<"r","e","s","o","l","v","e","d">>, {<<"p","r","o","b","l","e","m"," ","s","o","l","v","i","n","g">>, <<"c","o","n","f","l","i","c","t"," ","r","e","s","o","l","u","t","i","o","n">>}>> >>
\* ResumeParser.infer_soft_skills_from_responsibilities: the set it lists
InferSoftSkillsFromResponsibilities(responsibilities) ==
  UNION {verb_soft_skill_map[v][2] :
           v \in {w \in 1..Len(verb_soft_skill_map) :
                    \E r \in 1..Len(responsibilities) :
                      Contains(Lower(responsibilities[r]), verb_soft_skill_map[w][1])}}

\* re.search(r'(Jan|Feb|...|Dec|\d{4})', line, re.IGNORECASE)
MonthShort == <<<<"j","a","n">>, <<"f","e","b">>, <<"m","a","r">>, <<"a","p","r">>, <<"m","a","y">>, <<"j","u","n">>, <<"j","u","l">>, <<"a","u","g">>, <<"s","e","p">>,
                <<"o","c","t">>, <<"n","o","v">>, <<"d","e","c">>>>
HasMonthOrYear(line) == \/ \E m \in 1..Len(MonthShort) : Contains(Lower(line), MonthShort[m])
                        \/ \E i \in 1..Len(line) : Digits4At(line, i)
\* the words a description line of a project starts with
DescriptionStarts == <<<<"d","e","v","e","l","o","p","e","d">>, <<"b","u","i","l","t">>, <<"c","r","e","a","t","e","d">>, <<"i","m","p","l","e","m","e","n","t","e","d">>, <<"i","n","t","e","g","r","a","t","e","d">>,
                       <<"d","e","m","o","n","s","t","r","a","t","e","d">>, <<"u","s","e","d">>, <<"l","e","v","e","r","a","g","e","d">>, <<"d","e","s","i","g","n","e","d">>, <<"t","e","c","h","n","o","l","o","g","i","e","s",":">>,
                       <<"t","e","c","h"," ","s","t","a","c","k",":">>>>
\* method_patterns of flush_project: the alternatives of each pattern, lower-cased
method_patterns == <<
  <<<<"t","f","-","i","d","f">>, <<"t","f","/","i","d","f">>, <<"t","f","i","d","f">>>>, <<<<"c","o","s","i","n","e"," ","s","i","m","i","l","a","r","i","t","y">>>>, <<<<"r","a","n","d","o","m"," ","f","o","r","e","s","t">>>>,
  <<<<"l","o","g","i","s","t","i","c"," ","r","e","g","r","e","s","s","i","o","n">>>>, <<<<"n","e","u","r","a","l"," ","n","e","t","w","o","r","k">>>>, <<<<"f","e","a","t","u","r","e"," ","e","n","g","i","n","e","e","r","i","n","g">>>>,
  <<<<"h","y","p","e","r","p","a","r","a","m","e","t","e","r"," ","t","u","n","i","n","g">>>>, <<<<"e","x","p","l","o","r","a","t","o","r","y"," ","d","a","t","a"," ","a","n","a","l","y","s","i","s">>, <<"e","d","a">>>>,
  <<<<"n","l","p">>, <<"n","a","t","u","r","a","l"," ","l","a","n","g","u","a","g","e"," ","p","r","o","c","e","s","s","i","n","g">>>>, <<<<"c","n","n">>, <<"c","o","n","v","o","l","u","t","i","o","n","a","l"," ","n","e","u","r","a","l"," ","n","e","t","w","o","r","k">>>>,
  <<<<"r","n","n">>, <<"r","e","c","u","r","r","e","n","t"," ","n","e","u","r","a","l"," ","n","e","t","w","o","r","k">>>>, <<<<"l","s","t","m">>, <<"l","o","n","g"," ","s","h","o","r","t","-","t","e","r","m"," ","m","e","m","o","r","y">>>> >>
\* re.search(pattern, description, re.IGNORECASE).group(0): the text of the leftmost
\* match, the first alternative that matches there; empty when there is no match
MethodMatch(alts, description) ==
  LET starts == {i \in 1..Len(description) : FirstAlt(description, i, alts) # 0}
  IN IF starts = {} THEN <<>>
     ELSE Sub(description, SetMin(starts),
              SetMin(starts) + Len(alts[FirstAlt(description, SetMin(starts), alts)]) - 1)
\* seq with x appended unless seq holds it
AppendNew(seq, x) == IF InList(seq, x) THEN seq ELSE Append(seq, x)
RECURSIVE AppendAllNew(_, _)
AppendAllNew(seq, xs) == IF xs = <<>> THEN seq ELSE AppendAllNew(AppendNew(seq, Head(xs)), Tail(xs))

\* the project with the tools and methods looked up in its title as well
FlushProjectTitled(current_title, current_desc) ==
  LET description == Strip(Join(current_desc, <<NL>>))
      project_text == Lower(current_title \o <<NL>> \o description)
      known_tools == FRAMEWORKS_LIBRARIES \o PROGRAMMING_LANGUAGES \o TOOLS_PLATFORMS \o DATABASES
      found == SelectSeq(known_tools, LAMBDA tool : WordSearch(Lower(tool), project_text))
      tools == AppendAllNew(<<>>, [i \in 1..Len(found) |-> Lookup(SKILL_CANONICAL, Lower(found[i]), Title(found[i]))])
      methods == SelectSeq([p \in 1..Len(method_patterns) |-> MethodMatch(method_patterns[p], description)],
                           LAMBDA m : m # <<>>)
  IN [title |-> Trunc(current_title, 100),
      description |-> Trunc(description, 300),
      tools_methods_used |-> AppendAllNew(tools, methods)]
\* flush_project of extract_projects_details: the project built from a title and its lines
FlushProject(current_title, current_desc) ==
  LET description == Strip(Join(current_desc, <<NL>>))
      project_text == Lower(description)
      known_tools == FRAMEWORKS_LIBRARIES \o PROGRAMMING_LANGUAGES \o TOOLS_PLATFORMS \o DATABASES
      found == SelectSeq(known_tools, LAMBDA tool : WordSearch(Lower(tool), project_text))
      tools == AppendAllNew(<<>>, [i \in 1..Len(found) |-> Lookup(SKILL_CANONICAL, Lower(found[i]), Title(found[i]))])
      methods == SelectSeq([p \in 1..Len(method_patterns) |-> MethodMatch(method_patterns[p], description)],
                           LAMBDA m : m # <<>>)
  IN [title |-> Trunc(current_title, 100),
      description |-> Trunc(description, 300),
      tools_methods_used |-> AppendAllNew(tools, methods)]

\* the loop of extract_projects_details over the lines of the section; the lines
\* collected are emptied by flush_project only, which a first title does not call
RECURSIVE ScanProjects(_, _, _, _)
ScanProjects(lines, current_title, current_desc, projects) ==
  IF lines = <<>>
  THEN (IF current_title = <<>> THEN projects ELSE Append(projects, FlushProject(current_title, current_desc)))
  ELSE LET line == Head(lines)
           is_bullet == \/ IsBullet(line)
                        \/ \E w \in 1..Len(DescriptionStarts) : StartsWith(Lower(line), DescriptionStarts[w])
                        \/ (current_title # <<>> /\ ~HasMonthOrYear(line))
           bullet_text == StripBullet(line)
       IN IF DetectSectionKey(line) = "projects"
          THEN ScanProjects(Tail(lines), current_title, current_desc, projects)
          ELSE IF ~is_bullet /\ (HasMonthOrYear(line) \/ current_title = <<>>)
          THEN ScanProjects(Tail(lines), line, IF current_title = <<>> THEN current_desc ELSE <<>>,
                            IF current_title = <<>> THEN projects
                            ELSE Append(projects, FlushProject(current_title, current_desc)))
          ELSE ScanProjects(Tail(lines), current_title,
                            IF bullet_text # <<>> THEN Append(current_desc, bullet_text) ELSE current_desc,
                            projects)

\* ResumeParser.extract_projects_details
ExtractProjectsDetails(sections) ==
  LET proj_lines == SectionLines(sections, "projects")
      lines == SelectSeq([i \in 1..Len(proj_lines) |-> Strip(proj_lines[i])], LAMBDA l : l # <<>>)
  IN IF proj_lines = <<>> THEN <<>> ELSE Trunc(ScanProjects(lines, <<>>, <<>>, <<>>), 20)

\* the first position from p on where one of lits occurs in s, Len(s) + 1 when none does
FirstOf(s, p, lits) ==
  LET hits == {i \in p..Len(s) : \E l \in lits : At(s, i, l)}
  IN IF hits = {} THEN Len(s) + 1 ELSE SetMin(hits)
\* the first group of re.search(head + r'\s*:?\s*(.*?)(?:' + stops + r'|$)', s, re.DOTALL)
\* for a match of head that ends before position p: the text from the end of the
\* greedy white space and colon up to the first stop word
SectionBody(s, p, stops) ==
  LET a == p + WsRun(s, p)
      b == IF a <= Len(s) /\ s[a] = ":" THEN a + 1 ELSE a
      c == b + WsRun(s, b)
  IN Sub(s, c, FirstOf(s, c, stops) - 1)

\* the number of matches of (?:^|\n)\s*[bullet\-\*\d+\.]\s+ in s from p on
BulletChars == DigitSet \cup {"-", "*", "+", "."}
RECURSIVE BulletCount(_, _)
BulletCount(s, p) ==
  LET starts == {i \in p..Len(s) : i = 1 \/ s[i] = NL}
      i == SetMin(starts)
      q == IF i = 1 THEN 1 ELSE i + 1
      \* the marker is no white space, so the greedy \s* takes the whole run
      m == q + WsRun(s, q)
  IN IF starts = {} THEN 0
     ELSE IF m <= Len(s) /\ s[m] \in BulletChars /\ WsRun(s, m + 1) >= 1
     THEN 1 + BulletCount(s, m + 1 + WsRun(s, m + 1))
     ELSE BulletCount(s, i + 1)

ProjectIndicators == <<<<"g","i","t","h","u","b">>, <<"g","i","t","l","a","b">>, <<"p","r","o","j","e","c","t">>, <<"b","u","i","l","t">>, <<"d","e","v","e","l","o","p","e","d">>, <<"c","r","e","a","t","e","d">>,
                       <<"d","e","s","i","g","n","e","d">>, <<"i","m","p","l","e","m","e","n","t","e","d">>>>
\* ResumeParser.count_projects
CountProjects(text_content) ==
  LET text_lower == Lower(text_content)
      at == Find(text_lower, <<"p","r","o","j","e","c","t">>)
      after == at + 7 + (IF At(text_lower, at + 7, <<"s">>) THEN 1 ELSE 0)
      projects_text == SectionBody(text_lower, after, {<<"e","x","p","e","r","i","e","n","c","e">>, <<"s","k","i","l","l","s">>, <<"e","d","u","c","a","t","i","o","n">>, <<"c","e","r","t","i","f","i","c","a","t","i","o","n">>})
      bullet_count == BulletCount(projects_text, 1)
      lines == SplitOn(projects_text, NL)
      project_count == Cardinality({l \in 1..Len(lines) :
                          Len(lines[l]) > 15 /\ \E k \in 1..Len(ProjectIndicators) : Contains(lines[l], ProjectIndicators[k])})
  IN IF at = 0 THEN 0
     ELSE IF bullet_count > 0 THEN Min(bullet_count, 20)
     ELSE Min(Max(0, project_count), 20)

\* ResumeParser._normalize_embedded_skill
NormalizeEmbeddedSkill(skill) ==
  LET normal(s) ==
        IF s = <<"h","s","i","2","c">> THEN <<"i","2","c">>
        ELSE IF Contains(s, <<"z","e","p","h","y","r">>) /\ Contains(s, <<"r","t","o","s">>) THEN <<"r","t","o","s">>
        ELSE IF s = <<"f","r","e","e","r","t","o","s">> THEN <<"r","t","o","s">>
        ELSE IF Contains(s, <<"k","e","r","n","e","l"," ","m","o","d","u","l","e">>) THEN <<"d","e","v","i","c","e"," ","d","r","i","v","e","r","s">>
        ELSE IF Contains(s, <<"d","e","v","i","c","e"," ","d","r","i","v","e","r">>) THEN <<"d","e","v","i","c","e"," ","d","r","i","v","e","r","s">>
        ELSE IF s \in {<<"s","h","e","l","l"," ","s","c","r","i","p","t","i","n","g">>, <<"s","h","e","l","l"," ","s","c","r","i","p","t">>} THEN <<"s","h","e","l","l">>
        ELSE skill
  IN normal(Lower(Strip(skill)))

\* the sets of Step 3 of _post_process_skills
known_languages == {<<"C">>, <<"C","+","+">>, <<"C","#">>, <<"P","y","t","h","o","n">>, <<"J","a","v","a">>, <<"J","a","v","a","S","c","r","i","p","t">>, <<"T","y","p","e","S","c","r","i","p","t">>,
  <<"G","o">>, <<"R","u","s","t">>, <<"R","u","b","y">>, <<"P","H","P">>, <<"S","w","i","f","t">>, <<"K","o","t","l","i","n">>, <<"S","c","a","l","a">>}
known_frameworks == {<<"R","e","a","c","t">>, <<"A","n","g","u","l","a","r">>, <<"V","u","e">>, <<"N","o","d","e",".","j","s">>, <<"E","x","p","r","e","s","s">>, <<"D","j","a","n","g","o">>,
  <<"F","l","a","s","k">>, <<"S","p","r","i","n","g">>, <<"S","p","r","i","n","g"," ","B","o","o","t">>, <<"T","e","n","s","o","r","F","l","o","w">>, <<"P","y","T","o","r","c","h">>, <<"K","e","r","a","s">>}
known_tools == {<<"G","i","t">>, <<"D","o","c","k","e","r">>, <<"K","u","b","e","r","n","e","t","e","s">>, <<"J","e","n","k","i","n","s">>, <<"A","W","S">>, <<"A","z","u","r","e">>, <<"G","C","P">>,
  <<"L","i","n","u","x">>, <<"V","S"," ","C","o","d","e">>, <<"I","n","t","e","l","l","i","J">>, <<"G","D","B">>, <<"T","r","a","c","e","3","2">>, <<"L","o","g","i","c"," ","A","n","a","l","y","z","e","r">>,
  <<"S","h","e","l","l"," ","S","c","r","i","p","t","i","n","g">>, <<"G","i","t","H","u","b">>, <<"G","i","t","L","a","b">>, <<"J","i","r","a">>, <<"P","o","s","t","m","a","n">>}
known_databases == {<<"M","y","S","Q","L">>, <<"P","o","s","t","g","r","e","S","Q","L">>, <<"M","o","n","g","o","D","B">>, <<"R","e","d","i","s">>, <<"S","Q","L","i","t","e">>, <<"O","r","a","c","l","e">>,
  <<"S","Q","L"," ","S","e","r","v","e","r">>, <<"C","a","s","s","a","n","d","r","a">>, <<"D","y","n","a","m","o","D","B">>, <<"F","i","r","e","b","a","s","e">>}
hardware_terms == {<<"M","i","c","r","o","c","o","n","t","r","o","l","l","e","r","s">>, <<"S","T","M","3","2">>, <<"R","a","s","p","b","e","r","r","y"," ","P","i">>, <<"A","r","d","u","i","n","o">>, <<"E","S","P","3","2">>,
  <<"I","2","C">>, <<"I","3","C">>, <<"U","A","R","T">>, <<"S","P","I">>, <<"G","P","I","O">>, <<"C","A","N">>, <<"U","S","B">>, <<"E","t","h","e","r","n","e","t">>,
  <<"D","e","v","i","c","e"," ","D","r","i","v","e","r","s">>, <<"R","T","O","S">>, <<"F","i","r","m","w","a","r","e">>, <<"E","m","b","e","d","d","e","d"," ","S","y","s","t","e","m","s">>}
acronyms == {<<"I","2","C">>, <<"I","3","C">>, <<"U","A","R","T">>, <<"S","P","I">>, <<"G","P","I","O">>, <<"R","T","O","S">>, <<"U","S","B">>, <<"C","A","N">>,
  <<"A","W","S">>, <<"G","C","P">>, <<"A","P","I">>, <<"R","E","S","T">>, <<"H","T","T","P">>, <<"H","T","T","P","S">>, <<"T","C","P">>, <<"U","D","P">>, <<"C","S","S">>, <<"H","T","M","L">>,
  <<"S","Q","L">>, <<"N","o","S","Q","L">>, <<"C","L","I">>, <<"I","D","E">>, <<"C","I","/","C","D">>, <<"N","L","P">>, <<"C","N","N">>, <<"R","N","N">>, <<"M","L">>, <<"A","I">>,
  <<"I","o","T">>, <<"M","Q","T","T">>, <<"J","S","O","N">>, <<"X","M","L">>, <<"Y","A","M","L">>}

\* Step 1: the project tools appended to the list of the category categorize_skill names
PromoteProjectTools(skills_data, projects) ==
  LET techs == SelectSeq(Flatten([p \in 1..Len(projects) |-> projects[p].tools_methods_used]),
                         LAMBDA tech : tech # <<>>)
  IN [c \in DOMAIN skills_data |->
        skills_data[c] \o SelectSeq(techs, LAMBDA tech : CategorizeSkill(Lower(tech)) = c)]

\* Step 2 on one skill: the key it is stored under, empty when it is dropped
SkillKey(skill) ==
  LET checked(normal, mapped) ==
        IF Strip(skill) = <<>> \/ normal = <<>> THEN <<>>
        ELSE IF Len(mapped) = 1 /\ mapped # <<"C">> THEN <<>>
        ELSE IF mapped \in INVALID_SKILLS \/ mapped \in VAGUE_CONCEPTS THEN <<>>
        ELSE mapped
      canonical(normal) == checked(normal, Lookup(CANONICAL_MAPPING, normal, normal))
  IN canonical(NormalizeEmbeddedSkill(Strip(skill)))
\* all_skills with every entry kept, whether or not its key was seen before
RECURSIVE CollectEverySkill(_, _)
CollectEverySkill(entries, all_skills) ==
  LET added(key, category) ==
        CollectEverySkill(Tail(entries), IF key = <<>> THEN all_skills ELSE Append(all_skills, <<key, category>>))
  IN IF entries = <<>> THEN all_skills
     ELSE added(SkillKey(Head(entries)[1]), Head(entries)[2])
\* Step 2: all_skills as the list of <<key, category>> in insertion order; a key keeps
\* the category it was first seen in
RECURSIVE CollectSkills(_, _)
CollectSkills(entries, all_skills) ==
  LET seen(key) == key = <<>> \/ (\E i \in 1..Len(all_skills) : all_skills[i][1] = key)
      added(key, category) ==
        CollectSkills(Tail(entries), IF seen(key) THEN all_skills ELSE Append(all_skills, <<key, category>>))
  IN IF entries = <<>> THEN all_skills
     ELSE added(SkillKey(Head(entries)[1]), Head(entries)[2])
\* Step 3: the one category a key is filed under
EnforcedCategory(skill, original_category) ==
  IF skill \in known_languages THEN "programming_languages"
  ELSE IF skill \in hardware_terms THEN "technical_skills"
  ELSE IF skill \in known_tools THEN "tools_platforms"
  ELSE IF skill \in known_frameworks THEN "frameworks_libraries"
  ELSE IF skill \in known_databases THEN "databases"
  ELSE original_category
\* Step 4: the casing of one name
NormalizeCasing(s) ==
  IF EndsWith(s, <<" ","C","L","I">>) \/ EndsWith(s, <<" ","C","l","i">>) THEN Sub(s, 1, Len(s) - 4) \o <<" ","C","L","I">>
  ELSE IF Upper(s) \in acronyms THEN Upper(s)
  ELSE Title(s)
\* Step 4: sorted(set(normalized))
FinalList(names, seed) == SortedList(ListOfSet({NormalizeCasing(s) : s \in names}, seed))

\* ResumeParser._post_process_skills: the five category lists
PostProcessSkills(skills_data, projects, seed) ==
  LET categorized(all_skills, c) ==
        {all_skills[i][1] : i \in {j \in 1..Len(all_skills) :
                                     EnforcedCategory(all_skills[j][1], all_skills[j][2]) = c}}
      final(all_skills) == [c \in RangeOf(TechnicalCategories) |-> FinalList(categorized(all_skills, c), seed)]
      entries(promoted) ==
        Flatten([c \in 1..Len(TechnicalCategories) |->
                   [i \in 1..Len(promoted[TechnicalCategories[c]]) |->
                      <<promoted[TechnicalCategories[c]][i], TechnicalCategories[c]>>]])
  IN final(CollectSkills(entries(PromoteProjectTools(skills_data, projects)), <<>>))

EXPERIENCE_KEYWORDS == <<<<"e","x","p","e","r","i","e","n","c","e">>, <<"w","o","r","k","e","d">>, <<"e","m","p","l","o","y","m","e","n","t">>, <<"i","n","t","e","r","n","s","h","i","p">>, <<"i","n","t","e","r","n">>,
  <<"p","r","o","j","e","c","t">>, <<"d","e","v","e","l","o","p","e","d">>, <<"m","a","n","a","g","e","d">>, <<"l","e","d">>, <<"r","e","s","p","o","n","s","i","b","l","e">>, <<"c","o","o","r","d","i","n","a","t","e","d">>, <<"s","u","p","e","r","v","i","s","e">>,
  <<"e","n","g","i","n","e","e","r">>, <<"d","e","v","e","l","o","p","e","r">>, <<"a","n","a","l","y","s","t">>, <<"c","o","n","s","u","l","t","a","n","t">>, <<"a","r","c","h","i","t","e","c","t">>, <<"m","a","n","a","g","e","r">>>>

\* the sum of the numbers of the matches of (\d+)\+?\s*(?:years?|yrs?) in s, -1 when
\* there is no match; a match starts at the head of a run of digits
YearsAt(s, i) == LET unit(u) == At(s, u, <<"y","e","a","r">>) \/ At(s, u, <<"y","r">>)
                     plus(f) == unit(f + WsRun(s, f))
                     number(e) == plus(IF e <= Len(s) /\ s[e] = "+" THEN e + 1 ELSE e)
                 IN IsDigit(s[i]) /\ (i = 1 \/ ~IsDigit(s[i-1])) /\ number(i + RunOf(s, i, DigitSet))
RECURSIVE SumOver(_, _)
SumOver(S, f) == IF S = {} THEN 0 ELSE LET x == CHOOSE y \in S : TRUE IN f[x] + SumOver(S \ {x}, f)
\* the matches of (\d{4})\s*[-to]+\s*(\d{4}|present|current) in s from p on, as
\* <<start year, end year>> with end year 0 for present and current
RECURSIVE YearRanges(_, _)
YearRanges(s, p) ==
  LET taken(i, e) ==
        << <<IntOf(Sub(s, i, i + 3)), IF Digits4At(s, e) THEN IntOf(Sub(s, e, e + 3)) ELSE 0>> >>
        \o YearRanges(s, e + (IF Digits4At(s, e) THEN 4 ELSE 7))
      first(starts) == IF starts = {} THEN <<>> ELSE taken(SetMin(starts), YearRangeEnd(s, SetMin(starts)))
  IN first({i \in p..Len(s) : YearRangeOK(s, i)})
RECURSIVE SumSeq(_)
SumSeq(seq) == IF seq = <<>> THEN 0 ELSE Head(seq) + SumSeq(Tail(seq))

\* ResumeParser.extract_experience_months; today.year is datetime.datetime.now().year
ExtractExperienceMonths(text_content, today) ==
  LET from_ranges(date_matches, experience_keyword_count) ==
        IF date_matches # <<>>
        THEN Min(SumSeq([d \in 1..Len(date_matches) |->
                    12 * Max(0, (IF date_matches[d][2] = 0 THEN today.year ELSE date_matches[d][2])
                                - date_matches[d][1])]), 600)
        ELSE Min(experience_keyword_count * 3, 120)
      from_years(text_lower, matches) ==
        IF matches # {}
        THEN Min(SumOver(matches, [i \in matches |->
                    IntOf(Sub(text_lower, i, i + RunOf(text_lower, i, DigitSet) - 1))]) * 12, 600)
        ELSE from_ranges(YearRanges(text_lower, 1),
                         Cardinality({k \in 1..Len(EXPERIENCE_KEYWORDS) :
                                        Contains(text_lower, EXPERIENCE_KEYWORDS[k])}))
      lowered(text_lower) == from_years(text_lower, {i \in 1..Len(text_lower) : YearsAt(text_lower, i)})
  IN lowered(Lower(text_content))

(***************************************************************************)
(* python/resume_parser.py: education and certifications.                  *)
(***************************************************************************)
\* the words that end the education block of extract_education
EducationStops == <<<<"e","x","p","e","r","i","e","n","c","e">>, <<"s","k","i","l","l","s">>, <<"p","r","o","j","e","c","t","s">>, <<"c","e","r","t","i","f","i","c","a","t","i","o","n">>, <<"i","n","t","e","r","n","s","h","i","p">>,
                    <<"d","e","c","l","a","r","a","t","i","o","n">>>>
\* the length of the stop that starts at i, 0 when none does (professional\s+achievements included)
EducationStopLen(s, i) ==
  IF FirstAlt(s, i, EducationStops) # 0 THEN Len(EducationStops[FirstAlt(s, i, EducationStops)])
  ELSE IF At(s, i, <<"p","r","o","f","e","s","s","i","o","n","a","l">>) /\ WsRun(s, i + 12) >= 1
          /\ At(s, i + 12 + WsRun(s, i + 12), <<"a","c","h","i","e","v","e","m","e","n","t","s">>)
  THEN 12 + WsRun(s, i + 12) + 12
  ELSE 0
\* re.findall(r'education\s*:?\s*(.*?)(?:stops|$)', s, re.DOTALL) from p on
RECURSIVE EducationMatches(_, _)
EducationMatches(s, p) ==
  LET heads == {i \in p..Len(s) : At(s, i, <<"e","d","u","c","a","t","i","o","n">>)}
      a == SetMin(heads) + 9 + WsRun(s, SetMin(heads) + 9)
      b == IF a <= Len(s) /\ s[a] = ":" THEN a + 1 ELSE a
      c == b + WsRun(s, b)
      stops == {i \in c..Len(s) : EducationStopLen(s, i) > 0}
  IN IF heads = {} THEN <<>>
     ELSE IF stops = {} THEN <<Sub(s, c, Len(s))>>
     ELSE <<Sub(s, c, SetMin(stops) - 1)>> \o EducationMatches(s, SetMin(stops) + EducationStopLen(s, SetMin(stops)))

\* text_content[start_idx:end_idx] of extract_education: from the first education to
\* the first end keyword found from ten characters later on
EducationTextOrig(text_content) ==
  LET low == Lower(text_content)
      start == Find(low, <<"e","d","u","c","a","t","i","o","n">>)
      end_keywords == {<<"e","x","p","e","r","i","e","n","c","e">>, <<"s","k","i","l","l">>, <<"p","r","o","j","e","c","t">>, <<"c","e","r","t","i","f","i","c","a","t","i","o","n">>, <<"p","r","o","f","e","s","s","i","o","n","a","l">>,
                       <<"i","n","t","e","r","n","s","h","i","p">>, <<"d","e","c","l","a","r","a","t","i","o","n">>}
  IN Sub(text_content, start, FirstOf(low, start + 10, end_keywords) - 1)

\* the degree alternation of degree_pattern, in its order
DegreeAlts == <<<<"b","a","c","h","e","l","o","r"," ","o","f"," ","t","e","c","h","n","o","l","o","g","y">>, <<"b","a","c","h","e","l","o","r"," ","o","f"," ","s","c","i","e","n","c","e">>, <<"b","a","c","h","e","l","o","r"," ","o","f"," ","a","r","t","s">>,
  <<"m","a","s","t","e","r","s"," ","o","f"," ","t","e","c","h","n","o","l","o","g","y">>, <<"m","a","s","t","e","r","s"," ","o","f"," ","s","c","i","e","n","c","e">>, <<"m","a","s","t","e","r"," ","o","f"," ","b","u","s","i","n","e","s","s"," ","a","d","m","i","n","i","s","t","r","a","t","i","o","n">>,
  <<"p","h","d">>, <<"d","o","c","t","o","r","a","t","e">>, <<"d","i","p","l","o","m","a">>, <<"b",".","t","e","c","h">>, <<"b",".","s">>, <<"b",".","a">>, <<"m",".","t","e","c","h">>, <<"m",".","s">>,
  <<"m",".","a">>, <<"m",".","b",".","a">>, <<"m","b","a">>>>
\* where the second group starts when alternative a matches at i, 0 when the match
\* fails: \s*(?:in|on)?\s+ takes the white space, an optional in or on and more white space
FieldStart(s, i, a) ==
  LET from(p, w) == IF (At(s, p + w, <<"i","n">>) \/ At(s, p + w, <<"o","n">>)) /\ WsRun(s, p + w + 2) >= 1
                    THEN p + w + 2 + WsRun(s, p + w + 2)
                    ELSE IF w >= 1 THEN p + w
                    ELSE 0
      after(p) == from(p, WsRun(s, p))
  IN IF ~At(s, i, DegreeAlts[a]) THEN 0 ELSE after(i + Len(DegreeAlts[a]))
\* re.finditer(degree_pattern, s) from p on: <<degree, field text>> of each match
RECURSIVE DegreeMatches(_, _)
DegreeMatches(s, p) ==
  LET taken(i, a, f, n) == << <<DegreeAlts[a], Sub(s, f, f + n - 1)>> >> \o DegreeMatches(s, Max(f + n, i + 1))
      field(i, a, f) == taken(i, a, f, RunOf(s, f, RangeOf(AsciiOrder) \ (DigitSet \cup {","})))
      alt(i, a) == field(i, a, FieldStart(s, i, a))
      at(i) == alt(i, SetMin({b \in 1..Len(DegreeAlts) : FieldStart(s, i, b) # 0}))
      first(starts) == IF starts = {} THEN <<>> ELSE at(SetMin(starts))
  IN first({i \in p..Len(s) : \E a \in 1..Len(DegreeAlts) : FieldStart(s, i, a) # 0})

\* the degree as it stands in the resume
DegreeAsWritten(degree) == degree
\* the full form extract_education gives a matched degree
DegreeFull(degree) ==
  IF degree \in {<<"b",".","t","e","c","h">>, <<"b",".","s">>, <<"b",".","a">>}
  THEN (IF Contains(degree, <<"t","e","c","h">>) THEN <<"B","a","c","h","e","l","o","r"," ","o","f"," ","T","e","c","h","n","o","l","o","g","y">> ELSE <<"B","a","c","h","e","l","o","r"," ","o","f"," ","S","c","i","e","n","c","e">>)
  ELSE IF degree \in {<<"m",".","t","e","c","h">>, <<"m",".","s">>, <<"m",".","a">>}
  THEN (IF Contains(degree, <<"t","e","c","h">>) THEN <<"M","a","s","t","e","r"," ","o","f"," ","T","e","c","h","n","o","l","o","g","y">> ELSE <<"M","a","s","t","e","r"," ","o","f"," ","S","c","i","e","n","c","e">>)
  ELSE IF degree \in {<<"m","b","a">>, <<"m",".","b",".","a">>} THEN <<"M","a","s","t","e","r"," ","o","f"," ","B","u","s","i","n","e","s","s"," ","A","d","m","i","n","i","s","t","r","a","t","i","o","n">>
  ELSE Title(degree)
\* the field cut at the first separator of the list that it holds
FieldSeparators == <<<<"-">>, <<"c","g","p","a">>, <<"g","p","a">>, <<"g","r","a","d","e">>>>
FieldOf(text) ==
  LET field == Strip(text)
      seps == {k \in 1..Len(FieldSeparators) : Contains(Lower(field), FieldSeparators[k])}
  IN IF seps = {} THEN field
     ELSE Strip(Sub(field, 1, Find(field, FieldSeparators[SetMin(seps)]) - 1))

HasAny(s, lits) == \E l \in lits : Contains(Lower(s), l)
InstitutionWords == {<<"i","n","s","t","i","t","u","t","e">>, <<"u","n","i","v","e","r","s","i","t","y">>, <<"c","o","l","l","e","g","e">>, <<"s","c","h","o","o","l">>, <<"a","c","a","d","e","m","y">>, <<"p","o","l","y","t","e","c","h","n","i","c">>}
\* the candidate built from the first comma part of line that names an institution:
\* the part, with the next part when that is no metadata; a list of one or none
InstitutionFromParts(line, words, excluded, metadata) ==
  LET parts == SplitOn(line, ",")
      hits == {i \in 1..Len(parts) : HasAny(parts[i], words) /\ ~HasAny(parts[i], excluded)}
      i == SetMin(hits)
      candidate == IF i + 1 <= Len(parts) /\ ~HasAny(Strip(parts[i + 1]), metadata)
                   THEN Strip(parts[i]) \o <<","," ">> \o Strip(parts[i + 1])
                   ELSE Strip(parts[i])
  IN IF hits = {} \/ ~(5 < Len(candidate) /\ Len(candidate) < 200) THEN <<>> ELSE <<candidate>>
\* Pattern 1: an institution on the line of a bachelor or master degree
DegreeLineInstitutions(orig_lines) ==
  Flatten([l \in 1..Len(orig_lines) |->
    IF HasAny(orig_lines[l], {<<"b","a","c","h","e","l","o","r"," ","o","f"," ","t","e","c","h","n","o","l","o","g","y">>, <<"b","a","c","h","e","l","o","r"," ","o","f"," ","s","c","i","e","n","c","e">>, <<"m","a","s","t","e","r">>})
       /\ HasAny(orig_lines[l], {<<"u","n","i","v","e","r","s","i","t","y">>, <<"c","o","l","l","e","g","e">>, <<"i","n","s","t","i","t","u","t","e">>})
    THEN InstitutionFromParts(orig_lines[l], {<<"u","n","i","v","e","r","s","i","t","y">>, <<"i","n","s","t","i","t","u","t","e">>}, {<<"b","a","c","h","e","l","o","r">>, <<"m","a","s","t","e","r">>},
           {<<"c","g","p","a">>, <<"g","p","a">>, <<"p","e","r","c","e","n","t","a","g","e">>, <<"2","0">>, <<"g","r","a","d","e">>, <<"j","u","n","e">>, <<"j","u","l","y">>, <<"m","a","y">>, <<"a","u","g","u","s","t">>})
    ELSE <<>>])
\* Pattern 2: a line of its own that names an institution
StopWords == {<<"c","g","p","a">>, <<"g","p","a">>, <<"p","e","r","c","e","n","t","a","g","e">>, <<"2","0","1","9">>, <<"2","0","2","0">>, <<"2","0","2","1">>, <<"2","0","2","2">>, <<"2","0","2","3">>,
              <<"2","0","2","4">>, <<"2","0","2","5">>, <<"2","0","2","6">>, <<"2","0","2","7">>, <<"2","0","2","8">>}
OwnLineInstitutions(orig_lines) ==
  Flatten([l \in 1..Len(orig_lines) |->
    LET line_clean == Strip(orig_lines[l])
        cuts == {i \in 1..Len(line_clean) : line_clean[i] \in {",", "-"}}
        clean_line == Strip(Sub(line_clean, 1, IF cuts = {} THEN Len(line_clean) ELSE SetMin(cuts) - 1))
    IN IF HasAny(line_clean, {<<"h","i","g","h"," ","s","c","h","o","o","l">>, <<"i","n","t","e","r","m","e","d","i","a","t","e">>, <<"s","e","c","o","n","d","a","r","y">>}) THEN <<>>
       ELSE IF ~HasAny(line_clean, InstitutionWords) THEN <<>>
       ELSE IF HasAny(line_clean, StopWords)
       THEN InstitutionFromParts(line_clean, InstitutionWords, {},
                                 {<<"c","g","p","a">>, <<"g","p","a">>, <<"p","e","r","c","e","n","t","a","g","e">>, <<"2","0">>, <<"g","r","a","d","e">>})
       ELSE IF 5 < Len(clean_line) /\ Len(clean_line) < 200 THEN <<clean_line>> ELSE <<>>])
\* re.sub(r',?\s*$', '', s).strip()
TrimInstitution(s) ==
  LET trimmed(r) == Strip(IF r # <<>> /\ r[Len(r)] = "," THEN Sub(r, 1, Len(r) - 1) ELSE r)
  IN trimmed(RStrip(s))

\* institution_pattern, the fallback of extract_education:
\* ([A-Z][class]*(?:University|...|Polytechnic)[class]*?)(?:,|$) with class [A-Za-z\s&,.-]
InstitutionNames == <<<<"U","n","i","v","e","r","s","i","t","y">>, <<"C","o","l","l","e","g","e">>, <<"S","c","h","o","o","l">>, <<"I","n","s","t","i","t","u","t","e">>, <<"A","c","a","d","e","m","y">>, <<"P","o","l","y","t","e","c","h","n","i","c">>>>
InstitutionClass == LowerSet \cup UpperSet \cup {" ", NL, "&", ",", ".", "-"}
NameAt(s, k) == IF \E n \in 1..Len(InstitutionNames) : At(s, k, InstitutionNames[n])
                THEN Len(InstitutionNames[CHOOSE n \in 1..Len(InstitutionNames) : At(s, k, InstitutionNames[n])])
                ELSE 0
\* the end of the lazy tail that starts at e: the first comma or the end of the text
TailEnd(s, e) == LET r == RunOf(s, e, InstitutionClass \ {","})
                 IN IF e + r > Len(s) \/ s[e + r] = "," THEN e + r ELSE 0
InstitutionMatchAt(s, i) ==
  {k \in (i + 1)..(i + RunOf(s, i + 1, InstitutionClass) + 1) : NameAt(s, k) > 0 /\ TailEnd(s, k + NameAt(s, k)) > 0}
InstitutionSearch(s) ==
  LET starts == {i \in 1..Len(s) : s[i] \in UpperSet /\ InstitutionMatchAt(s, i) # {}}
      i == SetMin(starts)
      k == SetMax(InstitutionMatchAt(s, i))
  IN IF starts = {} THEN <<>> ELSE Strip(Sub(s, i, TailEnd(s, k + NameAt(s, k)) - 1))

\* the positions of the matches of \b(20\d{2}|19\d{2})\b
YearPositions(s) == {i \in 1..Len(s) : /\ (At(s, i, <<"2","0">>) \/ At(s, i, <<"1","9">>)) /\ Digits4At(s, i)
                                       /\ WordBoundary(s, i) /\ WordBoundary(s, i + 4)}
\* cgpa_pattern: (?:cgpa|gpa|grade)\s*[:/,]?\s*([0-9.]+)\s*(?:/\s*([0-9.]+))?, as value/scale
NumChars == DigitSet \cup {"."}
CgpaValueAt(s, i) ==
  LET valued(v) == IF RunOf(s, v, NumChars) >= 1 THEN v ELSE 0
      separated(r) == valued(r + WsRun(s, r))
      spaced(q) == separated(IF q <= Len(s) /\ s[q] \in {":", "/", ","} THEN q + 1 ELSE q)
      named(p) == spaced(p + WsRun(s, p))
      labelled(labels, a) == IF a = 0 THEN 0 ELSE named(i + Len(labels[a]))
      labels == <<<<"c","g","p","a">>, <<"g","p","a">>, <<"g","r","a","d","e">>>>
  IN labelled(labels, FirstAlt(s, i, labels))
CgpaOf(s) ==
  LET value(v, e, d, scaled) ==
        Sub(s, v, e - 1) \o <<"/">> \o (IF scaled THEN Sub(s, d, d + RunOf(s, d, NumChars) - 1) ELSE <<"1","0",".","0">>)
      scale(v, e, slash, d) == value(v, e, d, slash <= Len(s) /\ s[slash] = "/" /\ RunOf(s, d, NumChars) >= 1)
      slashed(v, e, slash) == scale(v, e, slash, slash + 1 + WsRun(s, slash + 1))
      numbered(v, e) == slashed(v, e, e + WsRun(s, e))
      from(v) == numbered(v, v + RunOf(s, v, NumChars))
      first(starts) == IF starts = {} THEN <<>> ELSE from(CgpaValueAt(s, SetMin(starts)))
  IN first({i \in 1..Len(s) : CgpaValueAt(s, i) > 0})

\* the institution of extract_education: the first listed line, else the search
EducationInstitution(education_text_orig, degree_line, own_line) ==
  LET institution_lines == IF degree_line # <<>> THEN degree_line ELSE own_line
      listed == IF institution_lines = <<>> THEN <<>> ELSE TrimInstitution(institution_lines[1])
  IN IF listed # <<>> THEN listed ELSE InstitutionSearch(education_text_orig)
\* the entries: one per degree match; institution, years and cgpa go to the last one
EducationList(degrees, institution, year_positions, education_text, cgpa) ==
  LET years == {IntOf(Sub(education_text, i, i + 3)) : i \in year_positions}
      n == Cardinality(year_positions)
      entry(d, last) ==
        [degree |-> DegreeFull(degrees[d][1]),
         field |-> FieldOf(degrees[d][2]),
         institution |-> IF last THEN institution ELSE <<>>,
         start_year |-> IF last /\ n >= 2 THEN Pad(SetMin(years), 4) ELSE <<>>,
         end_year |-> IF last /\ n >= 2 THEN Pad(SetMax(years), 4)
                      ELSE IF last /\ n = 1 THEN Pad(SetMax(years), 4) ELSE <<>>,
         cgpa |-> IF last THEN cgpa ELSE <<>>]
  IN [d \in 1..Len(degrees) |-> entry(d, d = Len(degrees))]
EducationEntries(education_text, education_text_orig) ==
  EducationList(DegreeMatches(education_text, 1),
                EducationInstitution(education_text_orig,
                                     DegreeLineInstitutions(SplitOn(education_text_orig, NL)),
                                     OwnLineInstitutions(SplitOn(education_text_orig, NL))),
                YearPositions(education_text), education_text, CgpaOf(education_text))
EducationIn(text_content, text_lower, education_matches) ==
  EducationEntries(IF education_matches # <<>> THEN Join(education_matches, <<" ">>) ELSE text_lower,
                   IF education_matches # <<>> THEN EducationTextOrig(text_content) ELSE text_content)
\* ResumeParser.extract_education
ExtractEducation(text_content) ==
  EducationIn(text_content, Lower(text_content), EducationMatches(Lower(text_content), 1))

\* re.findall(r'certification\w*\s*:?\s*(.*?)(?:project|experience|education|skill|$)', s, re.DOTALL) from p on
CertificationStops == <<<<"p","r","o","j","e","c","t">>, <<"e","x","p","e","r","i","e","n","c","e">>, <<"e","d","u","c","a","t","i","o","n">>, <<"s","k","i","l","l">>>>
RECURSIVE CertificationMatches(_, _)
CertificationMatches(s, p) ==
  LET upto(c, stops) ==
        IF stops = {} THEN <<Sub(s, c, Len(s))>>
        ELSE <<Sub(s, c, SetMin(stops) - 1)>>
             \o CertificationMatches(s, SetMin(stops) + Len(CertificationStops[FirstAlt(s, SetMin(stops), CertificationStops)]))
      captured(c) == upto(c, {i \in c..Len(s) : FirstAlt(s, i, CertificationStops) # 0})
      spaced(b) == captured(b + WsRun(s, b))
      coloned(a) == spaced(IF a <= Len(s) /\ s[a] = ":" THEN a + 1 ELSE a)
      worded(w) == coloned(w + WsRun(s, w))
      headed(h) == worded(h + 13 + RunOf(s, h + 13, WordChars))
      heads == {i \in p..Len(s) : At(s, i, <<"c","e","r","t","i","f","i","c","a","t","i","o","n">>)}
  IN IF heads = {} THEN <<>> ELSE headed(SetMin(heads))
DescriptionVerbs == <<<<"l","e","a","r","n","t">>, <<"l","e","a","r","n","e","d">>, <<"c","r","e","a","t","e","d">>, <<"b","u","i","l","t">>, <<"d","e","v","e","l","o","p","e","d">>, <<"i","m","p","l","e","m","e","n","t","e","d">>,
                      <<"g","a","i","n","e","d">>, <<"s","t","u","d","i","e","d">>>>
\* ResumeParser.extract_certifications: the titles, taken from the lower-cased text
ExtractCertifications(text_content) ==
  LET stripped(kept) == [i \in 1..Len(kept) |-> Strip(kept[i])]
      titled(lines) ==
        stripped(SelectSeq([i \in 1..Len(lines) |->
                              IF lines[i][1] \in {"-", "*"}
                              THEN Sub(lines[i], 2 + WsRun(lines[i], 2), Len(lines[i])) ELSE lines[i]],
                           LAMBDA t : /\ ~\E v \in 1..Len(DescriptionVerbs) : StartsWith(t, DescriptionVerbs[v])
                                      /\ 10 < Len(t) /\ Len(t) < 200))
      lined(raw) == titled(SelectSeq([i \in 1..Len(raw) |-> Strip(raw[i])], LAMBDA l : l # <<>>))
      matched(cert_matches) == IF cert_matches = <<>> THEN <<>>
                               ELSE lined(SplitOn(Join(cert_matches, <<" ">>), NL))
  IN matched(CertificationMatches(Lower(text_content), 1))

\* the weighted sum with no part capped
UncappedCompletenessScore(skills_data, education, experience_months, projects, tie_up) ==
  LET total_technical == SumSeq([c \in 1..Len(TechnicalCategories) |-> Len(skills_data[TechnicalCategories[c]])])
      x == 12 * total_technical + (IF Len(education) > 0 THEN 120 ELSE 0) + experience_months + 24 * projects
      q == (x * 5) \div 24
      r == (x * 5) % 24
  IN IF r * 2 > 24 \/ (r * 2 = 24 /\ tie_up) THEN q + 1 ELSE q
\* ResumeParser.calculate_completeness_score, in hundredths.  The four weighted
\* parts sum to (12 min(n,10) + 120 e + min(m,120) + 24 min(p,5)) / 480.  round(score, 2)
\* rounds the binary floating point sum, which at an exact tie lies just above or just
\* below it: tie_up says which.
CalculateCompletenessScore(skills_data, education, experience_months, projects, tie_up) ==
  LET total_technical == SumSeq([c \in 1..Len(TechnicalCategories) |-> Len(skills_data[TechnicalCategories[c]])])
      x == 12 * Min(total_technical, 10) + (IF Len(education) > 0 THEN 120 ELSE 0)
           + Min(experience_months, 120) + 24 * Min(projects, 5)
      q == (x * 5) \div 24
      r == (x * 5) % 24
  IN IF r * 2 > 24 \/ (r * 2 = 24 /\ tie_up) THEN q + 1 ELSE q

(***************************************************************************)
(* python/resume_parser.py: text extraction and parse().                   *)
(***************************************************************************)
\* ResumeParser._clean_text on page text: the artifact (cid:127) removed, a pipe turned
\* into a hyphen, runs of blanks collapsed, every line trimmed and the blank lines
\* dropped.  The glyphs and dashes it also rewrites are outside the alphabet here.
CleanText(text) ==
  LET removed == Remove(text, <<"(","c","i","d",":","1","2","7",")">>)
      t == [i \in 1..Len(removed) |-> IF removed[i] = "|" THEN "-" ELSE removed[i]]
      lines == SplitOn(t, NL)
      trimmed == [i \in 1..Len(lines) |-> Join(Words(lines[i]), <<" ">>)]
  IN Join(SelectSeq(trimmed, LAMBDA l : l # <<>>), <<NL>>)

\* the lines _get_sections and the extractors walk: the non-blank lines, trimmed
TextLines(text_content) ==
  SelectSeq([i \in 1..Len(SplitOn(text_content, NL)) |-> Strip(SplitOn(text_content, NL)[i])],
            LAMBDA l : l # <<>>)

\* the whole-document estimate reported as the total
EstimatedMonthsTotal(experience_details, estimate) == estimate
\* the total parse() reports: the sum over the entries, whatever the estimate was
ExperienceMonthsTotal(experience_details, estimate) ==
  IF experience_details # <<>>
  THEN SumSeq([e \in 1..Len(experience_details) |-> experience_details[e].duration_months])
  ELSE 0

\* the dictionary parse() returns
ParseOutput(final, soft_skills, experience_details, experience_months, projects_details, projects_count, education, certifications, tie_up) ==
  [technical_skills |-> final.technical_skills,
   programming_languages |-> final.programming_languages,
   frameworks_libraries |-> final.frameworks_libraries,
   tools_platforms |-> final.tools_platforms,
   databases |-> final.databases,
   soft_skills |-> soft_skills,
   experience |-> experience_details,
   experience_months_total |-> experience_months,
   projects |-> projects_details,
   education |-> education,
   certifications |-> certifications,
   resume_completeness_score |->
     CalculateCompletenessScore(final, education, experience_months, projects_count, tie_up)]
\* the steps of parse() after the extractors: the total, the project count, the
\* harvest, the inferred soft skills and the post-processing
ParseMerge(text_content, skills_data, education, estimate, experience_details, projects_details, seed, tie_up) ==
  LET projects_count == IF projects_details # <<>>
                        THEN Max(CountProjects(text_content), Len(projects_details))
                        ELSE CountProjects(text_content)
      responsibilities == Flatten([e \in 1..Len(experience_details) |-> experience_details[e].responsibilities])
      harvest_texts == <<text_content>> \o responsibilities
                       \o [p \in 1..Len(projects_details) |-> projects_details[p].description]
      harvested == HarvestSkillsFromTexts(harvest_texts)
      extended == [c \in RangeOf(TechnicalCategories) |->
                     skills_data[c] \o ListOfSet(InCategory(harvested, c), seed)]
      soft_skills_inferred == IF experience_details # <<>> /\ skills_data.soft_skills = <<>>
                              THEN InferSoftSkillsFromResponsibilities(responsibilities) ELSE {}
      combined_soft_skills == RangeOf(skills_data.soft_skills) \cup soft_skills_inferred
  IN ParseOutput(PostProcessSkills(extended, projects_details, seed),
                 SortedList(ListOfSet(combined_soft_skills, seed)),
                 experience_details, ExperienceMonthsTotal(experience_details, estimate),
                 projects_details, projects_count, education,
                 ExtractCertifications(text_content), tie_up)
\* the extractors parse() calls, in its order, on the stripped text and its sections
ParseSteps(text_content, sections, today, seed, tie_up) ==
  ParseMerge(text_content, ExtractSkills(text_content, sections, seed), ExtractEducation(text_content),
             ExtractExperienceMonths(text_content, today), ExtractExperienceDetails(sections, today),
             ExtractProjectsDetails(sections), seed, tie_up)
\* the body of the try block of ResumeParser.parse() on extracted text: the result it returns
ParseResult(raw_text, cache, today, seed, tie_up) ==
  ParseSteps(Strip(raw_text), GetSections(TextLines(Strip(raw_text)), cache), today, seed, tie_up)

(***************************************************************************)
(* scripts/resume-parser/resume_parser.py: the flat-output parser.  It     *)
(* reads the raw text of the file; its section mapping holds one string    *)
(* per section.                                                            *)
(***************************************************************************)
\* SECTION_KEYWORDS in dictionary order, each keyword with its section
SECTION_KEYWORDS == <<
  <<"skills", <<"s","k","i","l","l","s">>>>, <<"skills", <<"t","e","c","h","n","i","c","a","l"," ","s","k","i","l","l","s">>>>, <<"skills", <<"p","r","o","f","e","s","s","i","o","n","a","l"," ","s","k","i","l","l","s">>>>,
  <<"skills", <<"c","o","r","e"," ","c","o","m","p","e","t","e","n","c","i","e","s">>>>, <<"skills", <<"c","o","m","p","e","t","e","n","c","i","e","s">>>>, <<"skills", <<"e","x","p","e","r","t","i","s","e">>>>,
  <<"skills", <<"p","r","o","f","i","c","i","e","n","c","y">>>>, <<"skills", <<"p","r","o","f","i","c","i","e","n","c","i","e","s">>>>, <<"skills", <<"t","e","c","h","n","o","l","o","g","i","e","s">>>>,
  <<"skills", <<"t","e","c","h","n","i","c","a","l"," ","e","x","p","e","r","t","i","s","e">>>>, <<"skills", <<"k","e","y"," ","s","k","i","l","l","s">>>>, <<"skills", <<"a","r","e","a","s"," ","o","f"," ","e","x","p","e","r","t","i","s","e">>>>,
  <<"skills", <<"t","e","c","h","n","i","c","a","l"," ","p","r","o","f","i","c","i","e","n","c","y">>>>, <<"skills", <<"t","o","o","l","s","e","t">>>>,
  <<"education", <<"e","d","u","c","a","t","i","o","n">>>>, <<"education", <<"a","c","a","d","e","m","i","c"," ","b","a","c","k","g","r","o","u","n","d">>>>, <<"education", <<"a","c","a","d","e","m","i","c">>>>,
  <<"education", <<"q","u","a","l","i","f","i","c","a","t","i","o","n","s">>>>, <<"education", <<"t","r","a","i","n","i","n","g">>>>, <<"education", <<"d","e","g","r","e","e","s">>>>,
  <<"education", <<"c","e","r","t","i","f","i","c","a","t","i","o","n","s">>>>, <<"education", <<"a","c","a","d","e","m","i","c"," ","q","u","a","l","i","f","i","c","a","t","i","o","n","s">>>>,
  <<"education", <<"e","d","u","c","a","t","i","o","n","a","l"," ","b","a","c","k","g","r","o","u","n","d">>>>, <<"education", <<"a","c","a","d","e","m","i","c"," ","c","r","e","d","e","n","t","i","a","l","s">>>>,
  <<"experience", <<"e","x","p","e","r","i","e","n","c","e">>>>, <<"experience", <<"w","o","r","k"," ","e","x","p","e","r","i","e","n","c","e">>>>,
  <<"experience", <<"p","r","o","f","e","s","s","i","o","n","a","l"," ","e","x","p","e","r","i","e","n","c","e">>>>, <<"experience", <<"e","m","p","l","o","y","m","e","n","t">>>>,
  <<"experience", <<"e","m","p","l","o","y","m","e","n","t"," ","h","i","s","t","o","r","y">>>>, <<"experience", <<"w","o","r","k"," ","h","i","s","t","o","r","y">>>>, <<"experience", <<"c","a","r","e","e","r">>>>,
  <<"experience", <<"c","a","r","e","e","r"," ","h","i","s","t","o","r","y">>>>, <<"experience", <<"p","r","o","f","e","s","s","i","o","n","a","l"," ","b","a","c","k","g","r","o","u","n","d">>>>,
  <<"experience", <<"w","o","r","k"," ","b","a","c","k","g","r","o","u","n","d">>>>, <<"experience", <<"p","o","s","i","t","i","o","n","s">>>>,
  <<"experience", <<"p","r","o","f","e","s","s","i","o","n","a","l"," ","h","i","s","t","o","r","y">>>>,
  <<"projects", <<"p","r","o","j","e","c","t","s">>>>, <<"projects", <<"s","e","l","e","c","t","e","d"," ","p","r","o","j","e","c","t","s">>>>, <<"projects", <<"k","e","y"," ","p","r","o","j","e","c","t","s">>>>,
  <<"projects", <<"p","o","r","t","f","o","l","i","o">>>>, <<"projects", <<"p","e","r","s","o","n","a","l"," ","p","r","o","j","e","c","t","s">>>>, <<"projects", <<"s","i","d","e"," ","p","r","o","j","e","c","t","s">>>>,
  <<"projects", <<"p","r","o","j","e","c","t"," ","e","x","p","e","r","i","e","n","c","e">>>>, <<"projects", <<"n","o","t","a","b","l","e"," ","p","r","o","j","e","c","t","s">>>>,
  <<"projects", <<"p","r","o","j","e","c","t"," ","w","o","r","k">>>> >>

\* self.lines of extract_text: the stripped lines of the text that are not blank
flat_lines(text) ==
  LET parts == SplitOn(text, NL)
  IN SelectSeq([i \in 1..Len(parts) |-> Strip(parts[i])], LAMBDA l : l # <<>>)

\* re.match(r'^[=\-—_*\s]+$', line): a separator line
is_separator(line) == line # <<>> /\ \A i \in 1..Len(line) : line[i] \in {"=", "-", "_", "*"} \/ IsSpace(line[i])

\* the section of the first keyword (in dictionary order) the line after a separator contains, None when none
separator_match(header_line) ==
  LET section(table, e) == IF e = 0 THEN None ELSE table[e][1]
      keyworded(table, lower) == section(table, FirstHit(Len(table), LAMBDA e : Contains(lower, table[e][2])))
  IN keyworded(SECTION_KEYWORDS, Strip(Lower(header_line)))

\* best_match of the keyword loop: the section of the longest keyword that the line
\* holds in a header-like way, the first of them among equals; None when there is none
best_match(line) ==
  LET header_like(line_lower, kw) == \/ EndsWith(Strip(line), <<":">>)
                                     \/ (Len(Words(line)) <= 3 /\ kw = line_lower)
                                     \/ StartsWith(line_lower, kw \o <<" ">>)
                                     \/ StartsWith(line_lower, kw \o <<":">>)
                                     \/ line_lower = kw
      ok(line_lower, kw) == Contains(line_lower, kw) /\ header_like(line_lower, kw)
      longest(table, hits) ==
        IF hits = {} THEN None
        ELSE table[CHOOSE e \in hits :
                     \A f \in hits : \/ Len(table[f][2]) < Len(table[e][2])
                                     \/ (Len(table[f][2]) = Len(table[e][2]) /\ f >= e)][1]
      keyworded(table, line_lower) == longest(table, {e \in 1..Len(table) : ok(line_lower, table[e][2])})
  IN keyworded(SECTION_KEYWORDS, Strip(Lower(line)))

\* self.sections[key] = value
put(sections, key, value) == [k \in DOMAIN sections \cup {key} |-> IF k = key THEN value ELSE sections[k]]

\* the while loop of segment_by_layout_and_rules from line i on
RECURSIVE segment_loop(_, _, _, _, _)
segment_loop(lines, i, sections, current_section, section_text) ==
  LET flushed == put(sections, current_section, Join(section_text, <<NL>>))
      step(line, after_separator, best) ==
        IF after_separator # None
        THEN segment_loop(lines, i + 2, flushed, after_separator, <<lines[i+1]>>)
        ELSE IF best # None
        THEN segment_loop(lines, i + 1, flushed, best, <<line>>)
        ELSE segment_loop(lines, i + 1, sections, current_section, Append(section_text, line))
  IN IF i > Len(lines)
     THEN IF section_text # <<>> THEN flushed ELSE sections
     ELSE step(lines[i],
               IF is_separator(lines[i]) /\ i + 1 <= Len(lines) THEN separator_match(lines[i+1]) ELSE None,
               best_match(lines[i]))

\* ResumeParser.segment_by_layout_and_rules: the section mapping of the text
segment_by_layout_and_rules(lines, text) ==
  LET segmented(sections) == IF DOMAIN sections = {} THEN put(EmptyMap, "body", text) ELSE sections
  IN segmented(segment_loop(lines, 1, EmptyMap, "header", <<>>))

\* self.sections.get(key, default)
sections_get(sections, key, default) == IF key \in DOMAIN sections THEN sections[key] ELSE default

\* the entries of PROGRAMMING_LANGUAGES + WEB_FRAMEWORKS + DATABASES + TOOLS_PLATFORMS + DATA_SCIENCE +
\* BUSINESS_SOFT_SKILLS that occur in a document of the model, in the order of all_skills
flat_all_skills == <<
  <<"p","y","t","h","o","n">>, <<"j","a","v","a">>, <<"j","a","v","a","s","c","r","i","p","t">>, <<"c">>, <<"g","o">>, <<"r">>, <<"s","h","e","l","l">>, <<"b","a","s","h">>, <<"r","e","a","c","t">>, <<"a","n","g","u","l","a","r">>,
  <<"e","x","p","r","e","s","s">>, <<"p","o","s","t","g","r","e","s","q","l">>, <<"g","i","t">>, <<"d","o","c","k","e","r">>, <<"a","w","s">>, <<"j","i","r","a">>, <<"e","x","c","e","l">>, <<"w","o","r","d">>,
  <<"s","a","l","e","s">>, <<"a","g","i","l","e">>, <<"j","i","r","a">>, <<"f","i","n","a","n","c","e">>, <<"c","o","m","m","u","n","i","c","a","t","i","o","n">>, <<"l","e","a","d","e","r","s","h","i","p">>, <<"t","e","a","m","w","o","r","k">>,
  <<"c","o","l","l","a","b","o","r","a","t","i","o","n">>, <<"a","n","a","l","y","t","i","c","a","l">> >>

\* SKILL_BLOCKLIST
SKILL_BLOCKLIST == <<
  <<"t","e","c","h","n","i","c","a","l">>, <<"k","n","o","w","l","e","d","g","e">>, <<"s","k","i","l","l","s">>, <<"s","k","i","l","l">>, <<"p","r","o","f","i","c","i","e","n","t">>, <<"e","x","p","e","r","i","e","n","c","e">>,
  <<"e","x","p","e","r","i","e","n","c","e","d">>, <<"e","x","p","e","r","t","i","s","e">>, <<"p","r","o","f","i","c","i","e","n","c","y">>, <<"a","b","i","l","i","t","y">>, <<"a","b","i","l","i","t","i","e","s">>, <<"s","t","r","o","n","g">>,
  <<"e","x","c","e","l","l","e","n","t">>, <<"g","o","o","d">>, <<"g","r","e","a","t">>, <<"a","d","v","a","n","c","e","d">>, <<"i","n","t","e","r","m","e","d","i","a","t","e">>, <<"b","e","g","i","n","n","e","r">>, <<"b","a","s","i","c">>,
  <<"f","a","m","i","l","i","a","r">>, <<"u","n","d","e","r","s","t","a","n","d","i","n","g">>, <<"w","o","r","k","i","n","g">>, <<"h","a","n","d","s">>, <<"o","n">>, <<"a","n","d">>, <<"o","r">>, <<"t","h","e">>,
  <<"w","i","t","h">>, <<"i","n">>, <<"o","f">>, <<"f","o","r">>, <<"t","o">>, <<"a">>, <<"a","n">>, <<"u","s","i","n","g">>, <<"u","s","e","d">>, <<"u","s","e">>,
  <<"i","n","c","l","u","d","i","n","g">>, <<"s","u","c","h">>, <<"a","s">>, <<"l","i","k","e">>, <<"e","t","c">>, <<"v","a","r","i","o","u","s">>, <<"m","u","l","t","i","p","l","e">>, <<"s","e","v","e","r","a","l">>,
  <<"m","a","n","y">>, <<"o","t","h","e","r">>, <<"o","t","h","e","r","s">>, <<"m","o","r","e">>, <<"t","e","c","h","n","o","l","o","g","i","e","s">>, <<"t","e","c","h","n","o","l","o","g","y">>, <<"t","o","o","l","s">>,
  <<"t","o","o","l">>, <<"f","r","a","m","e","w","o","r","k","s">>, <<"f","r","a","m","e","w","o","r","k">>, <<"l","a","n","g","u","a","g","e","s">>, <<"l","a","n","g","u","a","g","e">>, <<"p","l","a","t","f","o","r","m","s">>,
  <<"p","l","a","t","f","o","r","m">>, <<"s","y","s","t","e","m","s">>, <<"s","y","s","t","e","m">>, <<"s","o","f","t","w","a","r","e">>, <<"h","a","r","d","w","a","r","e">>, <<"a","p","p","l","i","c","a","t","i","o","n","s">>,
  <<"a","p","p","l","i","c","a","t","i","o","n">>, <<"s","o","l","u","t","i","o","n","s">>, <<"d","e","v","e","l","o","p","m","e","n","t">>, <<"p","r","o","g","r","a","m","m","i","n","g">>, <<"c","o","d","i","n","g">>, <<"b","u","i","l","d","i","n","g">>,
  <<"c","r","e","a","t","i","n","g">>, <<"d","e","v","e","l","o","p","i","n","g">>, <<"d","e","s","i","g","n","i","n","g">>, <<"i","m","p","l","e","m","e","n","t","i","n","g">>, <<"m","a","n","a","g","i","n","g">>, <<"l","e","a","d","i","n","g">>,
  <<"t","e","a","m">>, <<"t","e","a","m","s">>, <<"p","r","o","j","e","c","t">>, <<"p","r","o","j","e","c","t","s">>, <<"w","o","r","k">>, <<"w","o","r","k","e","d">>, <<"w","o","r","k","i","n","g">>,
  <<"c","o","m","p","a","n","y">>, <<"c","o","m","p","a","n","i","e","s">>, <<"o","r","g","a","n","i","z","a","t","i","o","n">>, <<"o","r","g","a","n","i","z","a","t","i","o","n","s">>, <<"c","l","i","e","n","t">>, <<"c","l","i","e","n","t","s">>,
  <<"c","u","s","t","o","m","e","r">>, <<"c","u","s","t","o","m","e","r","s">>, <<"u","s","e","r">>, <<"u","s","e","r","s">>, <<"d","a","t","a">>, <<"i","n","f","o","r","m","a","t","i","o","n">>, <<"p","r","o","b","l","e","m">>,
  <<"p","r","o","b","l","e","m","s">>, <<"s","o","l","v","i","n","g">>, <<"s","o","l","u","t","i","o","n">>, <<"a","n","a","l","y","s","i","s">>, <<"d","e","s","i","g","n">>, <<"i","m","p","l","e","m","e","n","t","a","t","i","o","n">>,
  <<"t","e","s","t","i","n","g">>, <<"d","e","p","l","o","y","m","e","n","t">>, <<"m","a","i","n","t","e","n","a","n","c","e">>, <<"s","u","p","p","o","r","t">>, <<"c","o","m","m","u","n","i","c","a","t","i","o","n">>, <<"c","o","l","l","a","b","o","r","a","t","i","o","n">>,
  <<"l","e","a","d","e","r","s","h","i","p">>, <<"m","a","n","a","g","e","m","e","n","t">>, <<"t","i","m","e">>, <<"l","e","a","r","n","i","n","g">>, <<"q","u","i","c","k">>, <<"f","a","s","t">>, <<"e","f","f","i","c","i","e","n","t">>,
  <<"e","f","f","e","c","t","i","v","e">>, <<"r","e","s","p","o","n","s","i","b","l","e">>, <<"r","e","s","p","o","n","s","i","b","i","l","i","t","y">>, <<"r","e","s","p","o","n","s","i","b","i","l","i","t","i","e","s">>, <<"d","u","t","i","e","s">>, <<"d","u","t","y">>,
  <<"r","o","l","e">>, <<"r","o","l","e","s">> >>

\* skill_normalization_map of _filter_skills
skill_normalization_map == <<
  <<<<"j","s">>, <<"J","a","v","a","S","c","r","i","p","t">>>>, <<<<"r","e","a","c","t","j","s">>, <<"R","e","a","c","t">>>>, <<<<"a","n","g","u","l","a","r","j","s">>, <<"A","n","g","u","l","a","r">>>>,
  <<<<"v","u","e","j","s">>, <<"V","u","e">>>>, <<<<"v","u","e",".","j","s">>, <<"V","u","e",".","j","s">>>>, <<<<"n","e","x","t","j","s">>, <<"N","e","x","t",".","j","s">>>>,
  <<<<"n","o","d","e","j","s">>, <<"N","o","d","e",".","j","s">>>>, <<<<"n","o","d","e",".","j","s">>, <<"N","o","d","e",".","j","s">>>>, <<<<"s","q","l">>, <<"S","Q","L">>>>,
  <<<<"n","o","s","q","l">>, <<"N","o","S","Q","L">>>>, <<<<"c","+","+">>, <<"C","+","+">>>>, <<<<"c","#">>, <<"C","#">>>>, <<<<"a","w","s">>, <<"A","W","S">>>>,
  <<<<"g","c","p">>, <<"G","C","P">>>>, <<<<"m","o","n","g","o","d","b">>, <<"M","o","n","g","o","D","B">>>>, <<<<"p","o","s","t","g","r","e","s","q","l">>, <<"P","o","s","t","g","r","e","S","Q","L">>>>,
  <<<<"m","y","s","q","l">>, <<"M","y","S","Q","L">>>>, <<<<"j","a","v","a","s","c","r","i","p","t">>, <<"J","a","v","a","S","c","r","i","p","t">>>>,
  <<<<"t","y","p","e","s","c","r","i","p","t">>, <<"T","y","p","e","S","c","r","i","p","t">>>>, <<<<"p","y","t","h","o","n">>, <<"P","y","t","h","o","n">>>>, <<<<"j","a","v","a">>, <<"J","a","v","a">>>>,
  <<<<"r","e","a","c","t">>, <<"R","e","a","c","t">>>>, <<<<"a","n","g","u","l","a","r">>, <<"A","n","g","u","l","a","r">>>>, <<<<"v","u","e">>, <<"V","u","e">>>>,
  <<<<"d","o","c","k","e","r">>, <<"D","o","c","k","e","r">>>>, <<<<"k","u","b","e","r","n","e","t","e","s">>, <<"K","u","b","e","r","n","e","t","e","s">>>>,
  <<<<"t","e","n","s","o","r","f","l","o","w">>, <<"T","e","n","s","o","r","F","l","o","w">>>>, <<<<"p","y","t","o","r","c","h">>, <<"P","y","T","o","r","c","h">>>>, <<<<"m","s"," ","e","x","c","e","l">>, <<"E","x","c","e","l">>>>,
  <<<<"a","d","v","a","n","c","e","d"," ","e","x","c","e","l">>, <<"E","x","c","e","l">>>>, <<<<"e","x","c","e","l"," ","v","l","o","o","k","u","p">>, <<"E","x","c","e","l">>>>, <<<<"v","l","o","o","k","u","p">>, <<"E","x","c","e","l">>>>,
  <<<<"p","i","v","o","t"," ","t","a","b","l","e","s">>, <<"E","x","c","e","l">>>>, <<<<"p","o","w","e","r","q","u","e","r","y">>, <<"E","x","c","e","l">>>>, <<<<"e","x","c","e","l"," ","m","a","c","r","o","s">>, <<"E","x","c","e","l">>>>,
  <<<<"m","i","c","r","o","s","o","f","t"," ","o","f","f","i","c","e">>, <<"M","i","c","r","o","s","o","f","t"," ","O","f","f","i","c","e">>>>, <<<<"p","o","w","e","r","p","o","i","n","t">>, <<"P","o","w","e","r","P","o","i","n","t">>>>,
  <<<<"w","o","r","d">>, <<"W","o","r","d">>>>, <<<<"g","o","o","g","l","e"," ","s","h","e","e","t","s">>, <<"G","o","o","g","l","e"," ","S","h","e","e","t","s">>>>,
  <<<<"g","o","o","g","l","e"," ","d","o","c","s">>, <<"G","o","o","g","l","e"," ","D","o","c","s">>>>, <<<<"c","o","m","m","u","n","i","c","a","t","i","o","n"," ","s","k","i","l","l","s">>, <<"C","o","m","m","u","n","i","c","a","t","i","o","n">>>>,
  <<<<"p","r","e","s","e","n","t","a","t","i","o","n"," ","s","k","i","l","l","s">>, <<"P","r","e","s","e","n","t","a","t","i","o","n">>>>, <<<<"q","u","a","l","i","t","y"," ","a","s","s","u","r","a","n","c","e">>, <<"Q","u","a","l","i","t","y"," ","A","s","s","u","r","a","n","c","e">>>>,
  <<<<"q","a">>, <<"Q","u","a","l","i","t","y"," ","A","s","s","u","r","a","n","c","e">>>>, <<<<"o","p","e","r","a","t","i","o","n","s"," ","m","a","n","a","g","e","m","e","n","t">>, <<"O","p","e","r","a","t","i","o","n","s">>>>,
  <<<<"s","u","p","p","l","y"," ","c","h","a","i","n"," ","m","a","n","a","g","e","m","e","n","t">>, <<"S","u","p","p","l","y"," ","C","h","a","i","n">>>>, <<<<"s","c","m">>, <<"S","u","p","p","l","y"," ","C","h","a","i","n">>>>,
  <<<<"s","t","a","k","e","h","o","l","d","e","r"," ","m","a","n","a","g","e","m","e","n","t">>, <<"S","t","a","k","e","h","o","l","d","e","r"," ","M","a","n","a","g","e","m","e","n","t">>>>,
  <<<<"f","i","n","a","n","c","i","a","l"," ","a","n","a","l","y","s","i","s">>, <<"F","i","n","a","n","c","i","a","l"," ","A","n","a","l","y","s","i","s">>>>, <<<<"m","a","r","k","e","t"," ","r","e","s","e","a","r","c","h">>, <<"M","a","r","k","e","t"," ","R","e","s","e","a","r","c","h">>>>,
  <<<<"p","r","i","m","a","r","y"," ","r","e","s","e","a","r","c","h">>, <<"M","a","r","k","e","t"," ","R","e","s","e","a","r","c","h">>>>, <<<<"s","e","c","o","n","d","a","r","y"," ","r","e","s","e","a","r","c","h">>, <<"M","a","r","k","e","t"," ","R","e","s","e","a","r","c","h">>>>,
  <<<<"j","i","r","a">>, <<"J","i","r","a">>>>, <<<<"c","o","n","f","l","u","e","n","c","e">>, <<"C","o","n","f","l","u","e","n","c","e">>>>, <<<<"c","r","m">>, <<"C","R","M">>>>,
  <<<<"s","a","l","e","s","f","o","r","c","e">>, <<"S","a","l","e","s","f","o","r","c","e">>>>, <<<<"h","u","b","s","p","o","t">>, <<"H","u","b","S","p","o","t">>>>, <<<<"e","r","p">>, <<"E","R","P">>>>,
  <<<<"o","r","a","c","l","e"," ","e","r","p">>, <<"O","r","a","c","l","e">>>>, <<<<"o","r","a","c","l","e">>, <<"O","r","a","c","l","e">>>>, <<<<"t","a","l","l","y">>, <<"T","a","l","l","y">>>>,
  <<<<"q","u","i","c","k","b","o","o","k","s">>, <<"Q","u","i","c","k","B","o","o","k","s">>>> >>

\* ResumeParser._keyword_in_text: re.search(r'\b' + re.escape(keyword) + r'\b', text, re.IGNORECASE)
_keyword_in_text(keyword, text) ==
  \E i \in 1..(Len(text) - Len(keyword) + 1) :
     AtCI(text, i, Lower(keyword)) /\ WordBoundary(text, i) /\ WordBoundary(text, i + Len(keyword))

\* a match of one of skill_patterns: where it ends and the span of its group 1
NoMatch == [end |-> 0, from |-> 0, to |-> 0]

\* \s*(.+) from position p: the white space is given back until a character of the line is left
rest_of_line(s, p) ==
  LET n == WsRun(s, p)
      starts == {g \in p..(p + n) : g <= Len(s) /\ s[g] # NL}
  IN IF starts = {} THEN NoMatch
     ELSE LET g == SetMax(starts)
              e == g + RunOf(s, g, RangeOf(AsciiOrder) \cup {"\t"})
          IN [end |-> e, from |-> g, to |-> e - 1]

\* r'^\s*[-•*]\s*(.+)' with re.MULTILINE, tried at position p
bullet_match(s, p) ==
  LET q == p + WsRun(s, p)
  IN IF (p = 1 \/ s[p-1] = NL) /\ q <= Len(s) /\ s[q] \in {"-", "*"}
     THEN rest_of_line(s, q + 1) ELSE NoMatch

label_words == <<<<"l","a","n","g","u","a","g","e","s">>, <<"l","i","b","r","a","r","i","e","s">>, <<"t","o","o","l","s">>, <<"t","e","c","h","n","o","l","o","g","i","e","s">>, <<"f","r","a","m","e","w","o","r","k","s">>,
                 <<"d","a","t","a","b","a","s","e","s">>, <<"s","k","i","l","l","s">>, <<"e","x","p","e","r","t","i","s","e">>, <<"p","r","o","f","i","c","i","e","n","c","i","e","s">>>>

\* r'(?:Languages|...|Proficiencies):\s*(.+)' with re.IGNORECASE, tried at position p
label_match(s, p) ==
  LET labelled(a) == IF a = 0 THEN NoMatch ELSE rest_of_line(s, p + Len(label_words[a]) + 1)
  IN labelled(FirstHit(Len(label_words), LAMBDA a : AtCI(s, p, label_words[a] \o <<":">>)))

proficiency_words == <<<<"p","r","o","f","i","c","i","e","n","t">>, <<"e","x","p","e","r","i","e","n","c","e","d">>, <<"s","k","i","l","l","e","d">>, <<"e","x","p","e","r","t","i","s","e">>, <<"e","x","p","e","r","t">>, <<"f","a","m","i","l","i","a","r">>>>
usage_words == <<<<"w","o","r","k","e","d">>, <<"w","o","r","k">>, <<"e","x","p","e","r","i","e","n","c","e">>, <<"u","s","e","d">>, <<"u","s","i","n","g">>, <<"l","e","v","e","r","a","g","e","d">>>>
proficiency_prepositions == <<<<"i","n">>, <<"w","i","t","h">>>>
usage_prepositions == <<<<"o","n">>, <<"w","i","t","h">>, <<"i","n">>>>
phrase_class == LowerSet \cup UpperSet \cup {" ", NL, "\t", "&", "/", ",", ".", "+", "-"}

\* the length of the terminator (?:,| and |\.|;|\n) at position e, 0 when there is none
terminator_len(s, e) ==
  IF e > Len(s) THEN 0
  ELSE IF s[e] \in {",", ".", ";", NL} THEN 1
  ELSE IF AtCI(s, e, <<" ","a","n","d"," ">>) THEN 5
  ELSE 0

\* the lazy group ([a-zA-Z\s&/,\.\+\-]+?) from g: it stops before the first terminator after g
lazy_group(s, g) ==
  LET ends == {e \in (g + 1)..Len(s) : terminator_len(s, e) > 0}
  IN IF g > Len(s) \/ ends = {} THEN NoMatch
     ELSE LET e == SetMin(ends)
          IN IF \A k \in g..(e - 1) : s[k] \in phrase_class
             THEN [end |-> e + terminator_len(s, e), from |-> g, to |-> e - 1]
             ELSE NoMatch

\* the first group start, in the order the matcher tries them, from which the group matches
first_group(s, candidates) ==
  LET ok == {c \in 1..Len(candidates) : lazy_group(s, candidates[c]).end > 0}
  IN IF ok = {} THEN NoMatch ELSE lazy_group(s, candidates[SetMin(ok)])

\* positions hi, hi-1, .., lo
down_from(hi, lo) == IF hi < lo THEN <<>> ELSE [i \in 1..(hi - lo + 1) |-> hi + 1 - i]

\* r'\b(?:<words>)\s+(?:<prepositions>)?\s+(<group>)(?:<terminator>)' with re.IGNORECASE, tried at
\* position p; q is the position after the key word. The white space after the key word is taken
\* whole and the preposition tried there; without one, both \s+ share that white space
phrase_tail(s, q, prepositions) ==
  LET after(g0) == down_from(g0 + WsRun(s, g0), g0 + 1)
      with_preposition(r, a) == IF a = 0 THEN <<>> ELSE after(r + Len(prepositions[a]))
      spaced(n) ==
        IF n = 0 THEN NoMatch
        ELSE first_group(s, with_preposition(q + n, FirstHit(Len(prepositions), LAMBDA a :
                                                      /\ AtCI(s, q + n, prepositions[a])
                                                      /\ WsRun(s, q + n + Len(prepositions[a])) >= 1))
                            \o down_from(q + n, q + 2))
  IN spaced(WsRun(s, q))

hands_on_len(s, p) ==
  IF AtCI(s, p, <<"h","a","n","d","s">>)
  THEN LET k == RunOf(s, p + 5, {"-", " ", NL, "\t"})
       IN IF AtCI(s, p + 5 + k, <<"o","n">>) THEN 5 + k + 2 ELSE 0
  ELSE 0

phrase_match(s, p, words, prepositions, hands_on) ==
  LET tail(len) == IF len = 0 THEN NoMatch ELSE phrase_tail(s, p + len, prepositions)
      worded(a) == tail(IF a # 0 THEN Len(words[a]) ELSE IF hands_on THEN hands_on_len(s, p) ELSE 0)
  IN IF ~WordBoundary(s, p) THEN NoMatch
     ELSE worded(FirstHit(Len(words), LAMBDA a : AtCI(s, p, words[a]) /\ WsRun(s, p + Len(words[a])) >= 1))

\* skill_patterns[k] tried at position p
pattern_match(k, s, p) ==
  CASE k = 1 -> bullet_match(s, p)
    [] k = 2 -> label_match(s, p)
    [] k = 3 -> phrase_match(s, p, proficiency_words, proficiency_prepositions, FALSE)
    [] k = 4 -> phrase_match(s, p, usage_words, usage_prepositions, TRUE)

\* re.finditer(skill_patterns[k], s): group 1 of the matches from position p on, left to right
RECURSIVE pattern_groups(_, _, _)
pattern_groups(k, s, p) ==
  LET taken(i, m) == <<Sub(s, m.from, m.to)>> \o pattern_groups(k, s, Max(m.end, i + 1))
      first(found) == IF found = {} THEN <<>> ELSE taken(SetMin(found), pattern_match(k, s, SetMin(found)))
  IN first({i \in p..Len(s) : pattern_match(k, s, i).end > 0})

\* re.split(r'[,/;\n]|\band\b', segment)
RECURSIVE split_items(_, _)
split_items(s, start) ==
  LET sep(i) == IF s[i] \in {",", "/", ";", NL} THEN 1
                ELSE IF At(s, i, <<"a","n","d">>) /\ WordBoundary(s, i) /\ WordBoundary(s, i + 3) THEN 3 ELSE 0
      first(seps) == IF seps = {} THEN <<Sub(s, start, Len(s))>>
                     ELSE <<Sub(s, start, SetMin(seps) - 1)>> \o split_items(s, SetMin(seps) + sep(SetMin(seps)))
  IN first({i \in start..Len(s) : sep(i) > 0})

str_isdigit(s) == s # <<>> /\ \A i \in 1..Len(s) : IsDigit(s[i])

\* the items one matched segment adds to skills_found
segment_items(segment) ==
  LET clean(item) == KeepChars(Strip(item), (WordChars \cup {" ", NL, "\t", "+", ".", "#", "-"}) \ {"_"})
      kept(item, cleaned) == /\ Strip(item) # <<>>
                             /\ Len(cleaned) >= 2 /\ Len(cleaned) < 60
                             /\ ~str_isdigit(cleaned)
      items(raw_items) == {clean(raw_items[i]) : i \in {j \in 1..Len(raw_items) :
                                                         kept(raw_items[j], clean(raw_items[j]))}}
  IN items(split_items(segment, 1))

\* ResumeParser._filter_skills
_filter_skills(skills_found) ==
  LET kept == {s \in skills_found : LET skill_lower == Strip(Lower(s))
                                    IN ~(InList(SKILL_BLOCKLIST, skill_lower) \/ Len(skill_lower) < 2
                                         \/ str_isdigit(skill_lower))}
      named(s) == Lookup(skill_normalization_map, Strip(Lower(s)), Title(s))
  IN SortedSeq({named(s) : s \in kept})

\* ResumeParser.extract_skills of the flat-output parser
flat_extract_skills(sections, text) ==
  LET section_texts == <<sections_get(sections, "skills", <<>>), sections_get(sections, "experience", <<>>),
                         sections_get(sections, "projects", <<>>), sections_get(sections, "education", <<>>)>>
      itemised(segments) == UNION {segment_items(segments[i]) : i \in 1..Len(segments)}
      spotted(full_text_lower, skills) ==
        {Strip(skills[i]) : i \in {j \in 1..Len(skills) : _keyword_in_text(skills[j], full_text_lower)}}
      scanned(full_text) ==
        _filter_skills(spotted(Lower(full_text), flat_all_skills)
                       \cup itemised(Flatten([k \in 1..4 |-> pattern_groups(k, full_text, 1)])))
  IN scanned(Join(SelectSeq(section_texts, LAMBDA t : t # <<>>), <<NL>>) \o <<NL>> \o text)

\* DEGREE_KEYWORDS in dictionary order, each keyword with its degree type
DEGREE_KEYWORDS == <<
  <<<<"b","a","c","h","e","l","o","r">>, <<"b","a","c","h","e","l","o","r">>>>, <<<<"b","a","c","h","e","l","o","r">>, <<"b",".","s",".">>>>, <<<<"b","a","c","h","e","l","o","r">>, <<"b",".","a",".">>>>,
  <<<<"b","a","c","h","e","l","o","r">>, <<"b","s">>>>, <<<<"b","a","c","h","e","l","o","r">>, <<"b","a">>>>, <<<<"b","a","c","h","e","l","o","r">>, <<"u","n","d","e","r","g","r","a","d","u","a","t","e">>>>,
  <<<<"m","a","s","t","e","r">>, <<"m","a","s","t","e","r">>>>, <<<<"m","a","s","t","e","r">>, <<"m",".","s",".">>>>, <<<<"m","a","s","t","e","r">>, <<"m",".","a",".">>>>,
  <<<<"m","a","s","t","e","r">>, <<"m","s">>>>, <<<<"m","a","s","t","e","r">>, <<"m","a">>>>, <<<<"m","a","s","t","e","r">>, <<"m","b","a">>>>,
  <<<<"m","a","s","t","e","r">>, <<"g","r","a","d","u","a","t","e">>>>, <<<<"p","h","d">>, <<"p","h","d">>>>, <<<<"p","h","d">>, <<"p","h",".","d",".">>>>,
  <<<<"p","h","d">>, <<"d","o","c","t","o","r","a","t","e">>>>, <<<<"p","h","d">>, <<"d","o","c","t","o","r"," ","o","f"," ","p","h","i","l","o","s","o","p","h","y">>>>, <<<<"d","i","p","l","o","m","a">>, <<"d","i","p","l","o","m","a">>>>,
  <<<<"d","i","p","l","o","m","a">>, <<"a","s","s","o","c","i","a","t","e">>>>, <<<<"d","i","p","l","o","m","a">>, <<"a",".","s",".">>>>, <<<<"d","i","p","l","o","m","a">>, <<"a","s">>>>,
  <<<<"b","o","o","t","c","a","m","p">>, <<"b","o","o","t","c","a","m","p">>>>, <<<<"b","o","o","t","c","a","m","p">>, <<"c","e","r","t","i","f","i","c","a","t","i","o","n">>>>,
  <<<<"b","o","o","t","c","a","m","p">>, <<"c","e","r","t","i","f","i","c","a","t","e">>>> >>

INSTITUTION_KEYWORDS == <<
  <<"u","n","i","v","e","r","s","i","t","y">>, <<"c","o","l","l","e","g","e">>, <<"i","n","s","t","i","t","u","t","e">>, <<"s","c","h","o","o","l">>, <<"a","c","a","d","e","m","y">>, <<"p","o","l","y","t","e","c","h","n","i","c">>,
  <<"t","e","c","h","n","i","c","a","l">>, <<"e","n","g","i","n","e","e","r","i","n","g">> >>

INSTITUTION_BLOCKLIST == <<
  <<"h","a","c","k","a","t","h","o","n">>, <<"c","o","m","p","e","t","i","t","i","o","n">>, <<"c","o","n","t","e","s","t">>, <<"e","v","e","n","t">>, <<"c","o","n","f","e","r","e","n","c","e">>, <<"s","u","m","m","i","t">>,
  <<"w","o","r","k","s","h","o","p">>, <<"s","e","m","i","n","a","r">>, <<"w","e","b","i","n","a","r">>, <<"m","e","e","t","u","p">>, <<"b","o","o","t","c","a","m","p">>, <<"c","a","m","p">>, <<"f","e","s","t">>,
  <<"f","e","s","t","i","v","a","l">>, <<"o","l","y","m","p","i","a","d">>, <<"c","h","a","l","l","e","n","g","e">>, <<"a","w","a","r","d">>, <<"p","r","i","z","e">>, <<"w","i","n","n","e","r">>, <<"w","o","n">>,
  <<"p","a","r","t","i","c","i","p","a","t","e","d">>, <<"p","a","r","t","i","c","i","p","a","n","t">>, <<"o","r","g","a","n","i","z","e","d">>, <<"o","r","g","a","n","i","z","e","r">>, <<"h","o","s","t","e","d">>, <<"h","o","s","t">>,
  <<"s","p","e","a","k","e","r">>, <<"p","r","e","s","e","n","t","e","d">>, <<"p","r","e","s","e","n","t","a","t","i","o","n">>, <<"t","a","l","k">>, <<"s","e","s","s","i","o","n">>, <<"t","r","a","c","k">>, <<"c","a","t","e","g","o","r","y">>,
  <<"l","e","v","e","l">>, <<"r","o","u","n","d">>, <<"s","t","a","g","e">>, <<"p","h","a","s","e">>, <<"f","i","n","a","l">>, <<"s","e","m","i","f","i","n","a","l">>, <<"q","u","a","r","t","e","r","f","i","n","a","l">>,
  <<"n","a","t","i","o","n","a","l">>, <<"i","n","t","e","r","n","a","t","i","o","n","a","l">>, <<"r","e","g","i","o","n","a","l">>, <<"s","t","a","t","e">>, <<"d","i","s","t","r","i","c","t">>, <<"c","i","t","y">>, <<"l","o","c","a","l">>,
  <<"o","n","l","i","n","e">>, <<"v","i","r","t","u","a","l">>, <<"r","e","m","o","t","e">> >>

JOB_ROLE_KEYWORDS == <<
  <<"e","n","g","i","n","e","e","r">>, <<"d","e","v","e","l","o","p","e","r">>, <<"p","r","o","g","r","a","m","m","e","r">>, <<"d","e","s","i","g","n","e","r">>, <<"a","n","a","l","y","s","t">>, <<"m","a","n","a","g","e","r">>,
  <<"d","i","r","e","c","t","o","r">>, <<"l","e","a","d">>, <<"s","e","n","i","o","r">>, <<"j","u","n","i","o","r">>, <<"i","n","t","e","r","n">>, <<"c","o","n","s","u","l","t","a","n","t">>, <<"s","p","e","c","i","a","l","i","s","t">>,
  <<"a","r","c","h","i","t","e","c","t">>, <<"s","c","i","e","n","t","i","s","t">>, <<"a","d","m","i","n","i","s","t","r","a","t","o","r">> >>

institution_suffixes == <<<<"U","n","i","v","e","r","s","i","t","y">>, <<"C","o","l","l","e","g","e">>, <<"I","n","s","t","i","t","u","t","e">>, <<"S","c","h","o","o","l">>, <<"A","c","a","d","e","m","y">>>>

\* re.search(r'([A-Z][a-zA-Z\s,]+(?:University|College|Institute|School|Academy))', s): group 1
\* stripped, <<>> when there is no match. The class part is taken as long as it can be, so
\* the name ends with the last suffix word of the run that starts after the capital
institution_search(s) ==
  LET class == LowerSet \cup UpperSet \cup {" ", NL, "\t", ","}
      suffix_at(w) == \E a \in 1..Len(institution_suffixes) : At(s, w, institution_suffixes[a])
      suffix_len(w) == Len(institution_suffixes[CHOOSE a \in 1..Len(institution_suffixes) :
                                                  At(s, w, institution_suffixes[a])])
      ends(p) == {w \in (p + 2)..(p + RunOf(s, p + 1, class)) : suffix_at(w)}
      starts == {p \in 1..Len(s) : s[p] \in UpperSet /\ ends(p) # {}}
  IN IF starts = {} THEN <<>>
     ELSE LET p == SetMin(starts)
              w == SetMax(ends(p))
          IN Strip(Sub(s, p, w + suffix_len(w) - 1))

\* ResumeParser._extract_institution (the second definition of the class, which is the one in
\* effect): the name on the first line that holds an institution keyword and no blocked word
\* and matches; else the name found in the whole chunk; <<>> for None
_extract_institution(text) ==
  LET holds(words, line_lower) == \E k \in 1..Len(words) : Contains(line_lower, words[k])
      searched(line, line_lower) ==
        IF holds(INSTITUTION_KEYWORDS, line_lower) /\ ~holds(INSTITUTION_BLOCKLIST, line_lower)
        THEN institution_search(line) ELSE <<>>
      first(names, named) == IF named # {} THEN names[SetMin(named)] ELSE institution_search(text)
      found(names) == first(names, {i \in 1..Len(names) : names[i] # <<>>})
      read(lines) == found([i \in 1..Len(lines) |-> searched(lines[i], Lower(lines[i]))])
  IN read(SplitOn(text, NL))

\* re.findall(r'\b(19|20)\d{2}\b', text): group 1 of every match, the first two digits of the year
century_prefixes(text) ==
  LET at(i) == /\ (At(text, i, <<"1","9">>) \/ At(text, i, <<"2","0">>))
               /\ i + 3 <= Len(text) /\ IsDigit(text[i+2]) /\ IsDigit(text[i+3])
               /\ WordBoundary(text, i) /\ WordBoundary(text, i + 4)
      hits == SelectSeq([i \in 1..Len(text) |-> i], at)
  IN [k \in 1..Len(hits) |-> Sub(text, hits[k], hits[k] + 1)]

\* ResumeParser._extract_year: years[-1] of that list, <<>> for None
_extract_year(text) == LET last(found) == IF found = <<>> THEN <<>> ELSE found[Len(found)]
                       IN last(century_prefixes(text))

\* ResumeParser._normalize_year: the year as a number, 0 for None
_normalize_year(year, today) ==
  IF year # <<>> /\ str_isdigit(year) /\ 1950 <= IntOf(year) /\ IntOf(year) <= today.year + 5
  THEN IntOf(year) ELSE 0

\* ResumeParser._clean_education_entries: the first entry of each (degree, institution) pair
RECURSIVE _clean_education_entries(_)
_clean_education_entries(education_list) ==
  IF education_list = <<>> THEN <<>>
  ELSE LET rest == _clean_education_entries(Sub(education_list, 1, Len(education_list) - 1))
           entry == education_list[Len(education_list)]
       IN IF \E k \in 1..Len(rest) : rest[k].degree = entry.degree /\ rest[k].institution = entry.institution
          THEN rest ELSE Append(rest, entry)

\* the chunks of extract_education: the runs of stripped non-blank lines between blank lines
RECURSIVE education_chunks(_, _)
education_chunks(lines, current_chunk) ==
  IF lines = <<>> THEN (IF current_chunk # <<>> THEN <<Join(current_chunk, <<NL>>)>> ELSE <<>>)
  ELSE IF Strip(Head(lines)) = <<>>
  THEN (IF current_chunk # <<>> THEN <<Join(current_chunk, <<NL>>)>> ELSE <<>>)
       \o education_chunks(Tail(lines), <<>>)
  ELSE education_chunks(Tail(lines), Append(current_chunk, Strip(Head(lines))))

\* ResumeParser.extract_education of the flat-output parser; None is <<>> for degree and institution, 0 for year
flat_extract_education(sections, text, today) ==
  LET keyworded(table, e) == IF e = 0 THEN <<>> ELSE Title(table[e][1])
      degree(table, chunk_lower) ==
        keyworded(table, FirstHit(Len(table), LAMBDA e : _keyword_in_text(table[e][2], chunk_lower)))
      year(found) == IF found # <<>> THEN _normalize_year(found, today) ELSE 0
      info(chunk) == [degree |-> degree(DEGREE_KEYWORDS, Lower(chunk)),
                      institution |-> _extract_institution(chunk),
                      year |-> year(_extract_year(chunk))]
      entries(chunks) ==
        SelectSeq([c \in 1..Len(chunks) |-> info(chunks[c])],
                  LAMBDA d : d.institution # <<>>
                             /\ (d.degree # <<>> \/ sections_get(sections, "education", <<>>) = <<>>))
  IN _clean_education_entries(entries(education_chunks(SplitOn(sections_get(sections, "education", text), NL), <<>>)))

flat_months == <<<<"j","a","n">>, <<"f","e","b">>, <<"m","a","r">>, <<"a","p","r">>, <<"m","a","y">>, <<"j","u","n">>,
                 <<"j","u","l">>, <<"a","u","g">>, <<"s","e","p">>, <<"o","c","t">>, <<"n","o","v">>, <<"d","e","c">>>>
flat_end_words == <<<<"p","r","e","s","e","n","t">>, <<"c","u","r","r","e","n","t">>>> \o flat_months
flat_sep_class == {"-", "t", "o", "T", "O", " ", NL, "\t"}

\* ResumeParser.get_month_from_str
get_month_from_str(month_str) ==
  LET m == Trunc(Lower(month_str), 3)
  IN IF InList(flat_months, m) THEN CHOOSE k \in 1..12 : flat_months[k] = m ELSE 1

\* ResumeParser._parse_flexible_date: [ok, year, month]; ok is FALSE for None and for
\* a year datetime() rejects
_parse_flexible_date(date_str, is_end_date, today) ==
  LET date(y, m) == [ok |-> y >= 1 /\ m >= 1 /\ m <= 12, year |-> y, month |-> m]
      parsed(s) ==
        LET dot_end(p) == IF p <= Len(s) /\ s[p] = "." THEN p + 1 ELSE p
            name_end(i) == dot_end(i + 3 + RunOf(s, i + 3, LowerSet))
            year_after(q) == WsRun(s, q) >= 1 /\ Digits4At(s, q + WsRun(s, q))
            month_at(i) == FirstAlt(s, i, flat_months) # 0 /\ year_after(name_end(i))
            month_year(i, y) == date(IntOf(Sub(s, y, y + 3)), get_month_from_str(Sub(s, i, i + 2)))
            month_from(i, q) == month_year(i, q + WsRun(s, q))
            month_date(i) == month_from(i, name_end(i))
            slash_len(i) == IF i + 1 <= Len(s) /\ IsDigit(s[i+1]) /\ At(s, i + 2, <<"/">>) /\ Digits4At(s, i + 3)
                            THEN 2 ELSE 1
            slash_at(i) == IsDigit(s[i]) /\ \E d \in 1..2 : (\A k \in 0..(d-1) : i + k <= Len(s) /\ IsDigit(s[i+k]))
                                                             /\ At(s, i + d, <<"/">>) /\ Digits4At(s, i + d + 1)
            slash_from(i, d) == date(IntOf(Sub(s, i + d + 1, i + d + 4)), IntOf(Sub(s, i, i + d - 1)))
            slash_date(i) == slash_from(i, slash_len(i))
            year_at(i) == /\ (At(s, i, <<"1","9">>) \/ At(s, i, <<"2","0">>)) /\ Digits4At(s, i)
                          /\ WordBoundary(s, i) /\ WordBoundary(s, i + 4)
            year_date(i) == date(IntOf(Sub(s, i, i + 3)), IF is_end_date THEN 12 ELSE 1)
            first(month_hits, slash_hits, year_hits) ==
              IF month_hits # {} THEN month_date(SetMin(month_hits))
              ELSE IF slash_hits # {} THEN slash_date(SetMin(slash_hits))
              ELSE IF year_hits # {} THEN year_date(SetMin(year_hits))
              ELSE [ok |-> FALSE, year |-> 0, month |-> 0]
        IN IF Contains(s, <<"p","r","e","s","e","n","t">>) \/ Contains(s, <<"c","u","r","r","e","n","t">>)
           THEN [ok |-> TRUE, year |-> today.year, month |-> today.month]
           ELSE first({i \in 1..Len(s) : month_at(i)}, {i \in 1..Len(s) : slash_at(i)},
                      {i \in 1..Len(s) : year_at(i)})
  IN parsed(Strip(Lower(date_str)))

\* the separator \s*[-–—to\s]+\s* from position q and the token after it: the positions e
\* at which the token may start, the farthest first
flat_range_ends(s, q) == down_from(q + RunOf(s, q, flat_sep_class), q + 1)

\* date_patterns[0] tried at position i: [end, groups] with groups[4] = <<>> for None
month_range_match(s, i) ==
  LET groups(y, e, word, c) ==
        [end |-> IF Digits4At(s, c) THEN c + 4 ELSE c,
         groups |-> <<Sub(s, i, i + 2), Sub(s, y, y + 3), Sub(s, e, e + Len(word) - 1),
                      IF Digits4At(s, c) THEN Sub(s, c, c + 3) ELSE <<>> >>]
      dotted(y, e, word, b) == groups(y, e, word, b + WsRun(s, b))
      lettered(y, e, word, a) == dotted(y, e, word, IF a <= Len(s) /\ s[a] = "." THEN a + 1 ELSE a)
      worded(y, e, word) == lettered(y, e, word, e + Len(word) + RunOf(s, e + Len(word), Letters))
      ended(y, e) == worded(y, e, flat_end_words[FirstAlt(s, e, flat_end_words)])
      ranged(y, ends, ok) == IF Digits4At(s, y) /\ ok # {} THEN ended(y, ends[SetMin(ok)])
                             ELSE [end |-> 0, groups |-> <<>>]
      separated(y, ends) == ranged(y, ends, {c \in 1..Len(ends) : FirstAlt(s, ends[c], flat_end_words) # 0})
      yeared(y) == separated(y, flat_range_ends(s, y + 4))
      spaced(q) == IF FirstAlt(s, i, flat_months) # 0 /\ WsRun(s, q) >= 1 THEN yeared(q + WsRun(s, q))
                   ELSE [end |-> 0, groups |-> <<>>]
      named(p) == spaced(IF p <= Len(s) /\ s[p] = "." THEN p + 1 ELSE p)
  IN named(i + 3 + RunOf(s, i + 3, Letters))

\* (\d{1,2})/(\d{4}) at position i: the number of month digits, 0 when it does not match there
slash_date_len(s, i) ==
  IF i + 1 <= Len(s) /\ IsDigit(s[i]) /\ IsDigit(s[i+1]) /\ At(s, i + 2, <<"/">>) /\ Digits4At(s, i + 3) THEN 2
  ELSE IF i <= Len(s) /\ IsDigit(s[i]) /\ At(s, i + 1, <<"/">>) /\ Digits4At(s, i + 2) THEN 1
  ELSE 0

\* date_patterns[1] tried at position i
slash_range_match(s, i) ==
  LET groups(d, e, f) ==
        [end |-> e + f + 5,
         groups |-> <<Sub(s, i, i + d - 1), Sub(s, i + d + 1, i + d + 4),
                      Sub(s, e, e + f - 1), Sub(s, e + f + 1, e + f + 4)>>]
      ended(d, e) == groups(d, e, slash_date_len(s, e))
      ranged(d, ends, ok) == IF d > 0 /\ ok # {} THEN ended(d, ends[SetMin(ok)])
                             ELSE [end |-> 0, groups |-> <<>>]
      separated(d, ends) == ranged(d, ends, {c \in 1..Len(ends) : slash_date_len(s, ends[c]) > 0})
      dated(d) == separated(d, flat_range_ends(s, i + d + 5))
  IN dated(slash_date_len(s, i))

date_match(k, s, i) == IF k = 1 THEN month_range_match(s, i) ELSE slash_range_match(s, i)

\* re.finditer(date_patterns[k], s, re.IGNORECASE): the groups of the matches from position p on
RECURSIVE date_matches(_, _, _)
date_matches(k, s, p) ==
  LET after(match) == <<match.groups>> \o date_matches(k, s, match.end)
      first(found) == IF found = {} THEN <<>> ELSE after(date_match(k, s, SetMin(found)))
  IN first({i \in p..Len(s) : date_match(k, s, i).end > 0})

\* the body of the try block for one match: the duration appended, 0 when none is
months_between(start_date, end_date) ==
  LET duration == (end_date.year - start_date.year) * 12 + (end_date.month - start_date.month)
  IN IF start_date.ok /\ end_date.ok /\ duration > 0 THEN duration ELSE 0
match_duration(groups, today) ==
  months_between(_parse_flexible_date(groups[1] \o <<" ">> \o groups[2], FALSE, today),
                 _parse_flexible_date(IF Contains(Lower(groups[3]), <<"p","r","e","s","e","n","t">>) \/ Contains(Lower(groups[3]), <<"c","u","r","r","e","n","t">>)
                                      THEN <<"p","r","e","s","e","n","t">> ELSE groups[3] \o <<" ">> \o groups[4], TRUE, today))

\* ResumeParser.extract_experience_months of the flat-output parser. Every match of
\* date_patterns[2] has two groups only, groups[2] raises IndexError and the bare
\* except skips the match: the third pattern adds no duration
flat_extract_experience_months(sections, text, today) ==
  LET year_nums(years) == {IntOf(years[k]) : k \in 1..Len(years)}
      spanned(experience_text, years) ==
        IF Len(years) > 1 THEN (SetMax(year_nums(years)) - SetMin(year_nums(years))) * 12
        ELSE IF \E r \in 1..Len(JOB_ROLE_KEYWORDS) : Contains(Lower(experience_text), JOB_ROLE_KEYWORDS[r])
        THEN 12 ELSE 0
      total_months(experience_text, durations) ==
        IF durations # {} THEN SetMax(durations)
        ELSE spanned(experience_text, century_prefixes(experience_text))
      matched(experience_text, matches) ==
        total_months(experience_text, {match_duration(matches[m], today) : m \in 1..Len(matches)} \ {0})
      read(experience_text) ==
        matched(experience_text, date_matches(1, experience_text, 1) \o date_matches(2, experience_text, 1))
  IN read(sections_get(sections, "experience", text))

\* r'(?:^|\n)\s*(?:[-•*]|\d+\.|\b[A-Z])' tried at position p: where the match ends, 0 for no match
project_mark_end(s, p) ==
  LET try(q) == LET r == q + WsRun(s, q)
                    d == RunOf(s, r, DigitSet)
                IN IF r > Len(s) THEN 0
                   ELSE IF s[r] \in {"-", "*"} THEN r + 1
                   ELSE IF d >= 1 /\ At(s, r + d, <<".">>) THEN r + d + 1
                   ELSE IF s[r] \in UpperSet /\ WordBoundary(s, r) THEN r + 1
                   ELSE 0
  IN IF p = 1 /\ try(1) > 0 THEN try(1)
     ELSE IF p <= Len(s) /\ s[p] = NL THEN try(p + 1)
     ELSE 0

\* len(re.findall(...)) from position p on
RECURSIVE project_marks(_, _)
project_marks(s, p) ==
  LET found == {i \in p..Len(s) : project_mark_end(s, i) > 0}
  IN IF found = {} THEN 0 ELSE 1 + project_marks(s, project_mark_end(s, SetMin(found)))

\* ResumeParser.extract_projects_count
extract_projects_count(sections, text) ==
  Min(project_marks(sections_get(sections, "projects", text), 1), 20)

\* re.search(r'\b[A-Za-z0-9._%+-]+@[A-Za-z0-9.-]+\.[A-Z|a-z]{2,7}\b', text)
has_email(text) ==
  LET local == LowerSet \cup UpperSet \cup DigitSet \cup {".", "_", "%", "+", "-"}
      domain == LowerSet \cup UpperSet \cup DigitSet \cup {".", "-"}
      tld == LowerSet \cup UpperSet \cup {"|"}
  IN \E a \in 2..Len(text) :
       /\ text[a] = "@"
       /\ \E i \in 1..(a - 1) : WordBoundary(text, i) /\ \A k \in i..(a - 1) : text[k] \in local
       /\ \E d \in (a + 2)..Len(text) :
            /\ text[d] = "." /\ \A k \in (a + 1)..(d - 1) : text[k] \in domain
            /\ \E n \in 2..7 : /\ d + n <= Len(text) /\ \A k \in (d + 1)..(d + n) : text[k] \in tld
                               /\ WordBoundary(text, d + n + 1)

\* re.search(r'(\+\d{1,2}\s?)?(\(?\d{3}\)?)?[\s.-]?\d{3}[\s.-]?\d{4}', text): the optional
\* parts may all be empty, so it matches where three digits, at most one separator and
\* four digits stand
has_phone(text) ==
  \E i \in 1..Len(text) :
     /\ i + 2 <= Len(text) /\ \A k \in 0..2 : IsDigit(text[i+k])
     /\ \/ Digits4At(text, i + 3)
        \/ (i + 3 <= Len(text) /\ (IsSpace(text[i+3]) \/ text[i+3] \in {".", "-"}) /\ Digits4At(text, i + 4))

\* the sum of calculate_completeness_score, whose terms are 1.5, 0.5 and 1.0, counted in
\* half points; round(min(score / 10, 1.0), 2) in hundredths is five times that, at most 100
flat_score(email, phone, skills_section, education_section, experience_section, projects_section, skills, education, experience_months) ==
  LET halves == (IF email THEN 3 ELSE 0) + (IF phone THEN 1 ELSE 0)
                + (IF skills_section THEN 3 ELSE 0) + (IF education_section THEN 3 ELSE 0)
                + (IF experience_section THEN 3 ELSE 0) + (IF projects_section THEN 1 ELSE 0)
                + (IF skills # <<>> THEN 2 ELSE 0) + (IF education # <<>> THEN 2 ELSE 0)
                + (IF experience_months > 0 THEN 2 ELSE 0)
  IN Min(5 * halves, 100)

\* the extractor named by failing raises whenever it is called
Extractors == {"skills", "education", "experience", "projects"}
Faults == {"none", "extract_text", "segment", "completeness"} \cup Extractors

\* ResumeParser.calculate_completeness_score of the flat-output parser, in hundredths: it
\* calls extract_skills, extract_education and extract_experience_months again
flat_calculate_completeness_score(sections, text, today) ==
  flat_score(has_email(text), has_phone(text),
             sections_get(sections, "skills", <<>>) # <<>>, sections_get(sections, "education", <<>>) # <<>>,
             sections_get(sections, "experience", <<>>) # <<>>, sections_get(sections, "projects", <<>>) # <<>>,
             flat_extract_skills(sections, text), flat_extract_education(sections, text, today),
             flat_extract_experience_months(sections, text, today))

\* whether calculate_completeness_score raises: by itself, or in an extractor it calls
flat_completeness_raises(failing) == failing \in {"completeness", "skills", "education", "experience"}

\* what a call ends with: a returned value or an escaped exception
Returned(value) == [raised |-> FALSE, value |-> value]
Raised(message) == [raised |-> TRUE, value |-> [error |-> message]]

\* the fields parse() fills, each extractor in its own try block: a failing one
\* leaves the default of its field
flat_fields(sections, text, failing, today) ==
  [skills |-> IF failing = "skills" THEN <<>> ELSE flat_extract_skills(sections, text),
   education |-> IF failing = "education" THEN <<>> ELSE flat_extract_education(sections, text, today),
   experience_months |-> IF failing = "experience" THEN 0
                         ELSE flat_extract_experience_months(sections, text, today),
   projects_count |-> IF failing = "projects" THEN 0 ELSE extract_projects_count(sections, text),
   resume_completeness_score |-> IF flat_completeness_raises(failing) THEN 0
                                 ELSE flat_calculate_completeness_score(sections, text, today)]
\* ResumeParser.parse of the flat-output parser
flat_parse(text, failing, today) ==
  IF failing = "extract_text"
  THEN Returned([skills |-> <<>>, education |-> <<>>, experience_months |-> 0, projects_count |-> 0,
                 resume_completeness_score |-> 0, error |-> "Text extraction failed"])
  ELSE Returned(flat_fields(IF failing = "segment" THEN put(EmptyMap, "body", text)
                            ELSE segment_by_layout_and_rules(flat_lines(text), text),
                            text, failing, today))

\* default_response of main() of the flat-output parser
flat_default_response ==
  [skills |-> <<>>, education |-> <<>>, experience_months |-> 0, projects_count |-> 0,
   resume_completeness_score |-> 0]

\* ResumeParser.extract_text of the structured parser: the cleaned text of the file
extract_text(text) == CleanText(text)

\* ResumeParser.parse of the structured parser. Its body is one try block whose handler
\* raises Exception("Resume parsing failed: ..."): a failing step, or a file that gives no
\* text (extract_text raises ValueError), ends the call with that exception
parse(text, cache, failing, today, seed, tie_up) ==
  IF failing # "none" \/ extract_text(text) = <<>> THEN Raised("Resume parsing failed")
  ELSE Returned(ParseResult(extract_text(text), cache, today, seed, tie_up))

\* self._sections_cache after parse(): filled by the first extractor that asks for the sections
cache_after_parse(text, cache, failing) ==
  IF failing \in {"extract_text", "segment", "skills"} \/ extract_text(text) = <<>> THEN cache
  ELSE GetSections(TextLines(Strip(extract_text(text))), cache)

\* the calls of _get_sections parse() makes before the failing step ends it: extract_skills,
\* extract_experience_details and extract_projects_details ask for the sections, in this order
SectionCalls(failing) ==
  CASE failing \in {"extract_text", "segment", "skills"} -> 0
    [] failing \in {"education", "experience"} -> 1
    [] failing = "projects" -> 2
    [] OTHER -> 3

\* how many of the next calls of _get_sections run the line scan: a call scans when
\* self._sections_cache is empty, and stores what it found
RECURSIVE SectionScans(_, _, _)
SectionScans(text_lines, cache, calls) ==
  IF calls = 0 THEN 0
  ELSE (IF DOMAIN cache # {} THEN 0 ELSE 1)
       + SectionScans(text_lines, GetSections(text_lines, cache), calls - 1)

\* the line scans of _get_sections during one parse()
scans_in_parse(text, cache, failing) ==
  IF extract_text(text) = <<>> THEN 0
  ELSE SectionScans(TextLines(Strip(extract_text(text))), cache, SectionCalls(failing))

\* self.sections of the flat-output parser after parse(): untouched when extract_text fails,
\* the fallback {'body': text} when the segmentation raises
sections_after_parse(text, sections, failing) ==
  IF failing = "extract_text" THEN sections
  ELSE IF failing = "segment" THEN put(EmptyMap, "body", text)
  ELSE segment_by_layout_and_rules(flat_lines(text), text)

\* default_response of main() of the structured parser
default_response ==
  [technical_skills |-> <<>>, programming_languages |-> <<>>, frameworks_libraries |-> <<>>,
   tools_platforms |-> <<>>, databases |-> <<>>, soft_skills |-> <<>>, experience |-> <<>>,
   experience_months_total |-> 0, projects |-> <<>>, education |-> <<>>, certifications |-> <<>>,
   resume_completeness_score |-> 0]

(***************************************************************************)
(* The parser at work: main() parses the resume file and prints one        *)
(* document; the file may be parsed again, by a new process or by the same *)
(* parser object, while the system clock moves on.                         *)
(***************************************************************************)
\* the texts of the resume files
Corpus == <<
  <<>>,
  <<" "," ","\n"," ">>,
  <<"S","k","i","l","l","s","\n","P","y","t","h","o","n",","," ","R","e","a","c","t",","," ","A","W","S",","," ","D","o","c","k","e","r",","," ","P","o","s","t","g","r","e","S","Q","L">>,
  <<"E","x","p","e","r","i","e","n","c","e","\n","S","e","n","i","o","r"," ","E","n","g","i","n","e","e","r","\n","T","e","c","h"," ","C","o","r","p","\n","J","a","n"," ","2","0","2","0"," ","-"," ","D","e","c"," ","2","0","2","1">>,
  <<"T","e","c","h","n","i","c","a","l"," ","S","k","i","l","l","s",":","\n","E","m","b","e","d","d","e","d",":"," ","F","r","e","e","R","T","O","S",","," ","S","T","M","3","2"," ","&"," ","U","A","R","T","\n","N","o","d","e",".","j","s",","," ","R"," ","a","n","d"," ","C","\n","W","o","r","k"," ","E","x","p","e","r","i","e","n","c","e","\n","S","o","f","t","w","a","r","e"," ","I","n","t","e","r","n","\n","A","c","m","e"," ","L","a","b","s",","," ","I","n","d","i","a","\n","M","a","r"," ","2","0","2","4"," ","-"," ","P","r","e","s","e","n","t","\n","-"," ","L","e","d"," "," ","t","h","e"," ","d","o","c","k","e","r","-","c","o","m","p","o","s","e"," ","r","o","l","l","o","u","t","\n","P","r","o","j","e","c","t","s","\n","C","h","a","t"," ","a","p","p","\n","-"," ","b","u","i","l","t"," ","w","i","t","h"," ","t","a","i","l","w","i","n","d",","," ","n","l","p"," ","a","n","d"," ","b","a","s","h">>,
  <<"J","a","n","e"," ","D","o","e","\n","\n","p","y","t","h","o","n"," ","d","e","v","e","l","o","p","e","r"," ","|"," ","3"," ","y","e","a","r","s">>,
  <<"S","k","i","l","l","s","\n","P","y","t","h","o","n",","," ","R","e","a","c","t",","," ","A","W","S",","," ","D","o","c","k","e","r",","," ","P","o","s","t","g","r","e","S","Q","L","\n","E","x","p","e","r","i","e","n","c","e","\n","S","e","n","i","o","r"," ","E","n","g","i","n","e","e","r","\n","T","e","c","h"," ","C","o","r","p","\n","J","a","n"," ","2","0","2","0"," ","-"," ","D","e","c"," ","2","0","2","1","\n","P","r","o","j","e","c","t","s","\n","C","h","a","t"," ","a","p","p","\n","-"," ","b","u","i","l","t"," ","w","i","t","h"," ","t","a","i","l","w","i","n","d",","," ","n","l","p"," ","a","n","d"," ","b","a","s","h","\n","E","d","u","c","a","t","i","o","n","\n","B",".","T","e","c","h"," ","i","n"," ","C","o","m","p","u","t","e","r"," ","S","c","i","e","n","c","e",","," ","X","Y","Z"," ","U","n","i","v","e","r","s","i","t","y",","," ","P","u","n","e","\n","2","0","1","9"," ","-"," ","2","0","2","3">>,
  <<"E","d","u","c","a","t","i","o","n","\n","B","a","c","h","e","l","o","r"," ","o","f"," ","S","c","i","e","n","c","e"," ","i","n"," ","C","o","m","p","u","t","e","r"," ","S","c","i","e","n","c","e","\n","S","t","a","n","f","o","r","d"," ","U","n","i","v","e","r","s","i","t","y",","," ","2","0","2","0">>,
  <<"P","y","t","h","o","n"," ","d","e","v","e","l","o","p","e","r",","," ","b","u","i","l","t"," ","3"," ","p","r","o","j","e","c","t","s">>,
  <<"E","x","p","e","r","i","e","n","c","e","\n","I"," ","h","a","v","e"," ","e","x","p","e","r","i","e","n","c","e"," ","w","i","t","h"," ","P","y","t","h","o","n"," ","a","n","d"," ","J","a","v","a",".","\n","\n","S","k","i","l","l","s","\n","J","a","v","a","S","c","r","i","p","t",","," ","R","e","a","c","t",","," ","A","n","g","u","l","a","r">>,
  <<"S","k","i","l","l","s","\n","I"," ","h","a","v","e"," ","m","a","n","y"," ","s","k","i","l","l","s",".","\n","\n","E","d","u","c","a","t","i","o","n","\n","M","a","s","t","e","r"," ","o","f"," ","S","c","i","e","n","c","e",","," ","E","x","a","m","p","l","e"," ","U","n","i","v","e","r","s","i","t","y",","," ","2","0","2","2">>,
  <<"E","x","p","e","r","i","e","n","c","e","\n","S","o","f","t","w","a","r","e"," ","I","n","t","e","r","n","\n","A","c","m","e"," ","L","a","b","s","\n","B","u","i","l","t"," ","i","n","t","e","r","n","a","l"," ","t","o","o","l","s">>,
  <<"J","a","n","e"," ","D","o","e","\n","S","k","i","l","l","s","\n","P","y","t","h","o","n","\n","E","x","p","e","r","i","e","n","c","e","\n","A","c","m","e","\n","S","k","i","l","l","s","\n","D","o","c","k","e","r">>,
  <<"E","x","p","e","r","i","e","n","c","e","\n","J","a","n"," ","2","0","2","0"," ","-"," ","D","e","c"," ","2","0","2","1","\n","-"," ","B","u","i","l","t"," ","t","h","i","n","g","s">>,
  <<"E","x","p","e","r","i","e","n","c","e","\n","S","o","f","t","w","a","r","e"," ","I","n","t","e","r","n","\n","A","c","m","e"," ","L","a","b","s","\n","D","e","c"," ","2","0","2","1"," ","-"," ","J","a","n"," ","2","0","2","0","\n","A","n","a","l","y","s","t","\n","2","0","2","0"," ","/"," ","2","0","2","1">>,
  <<"E","d","u","c","a","t","i","o","n","\n","M","B","A"," ","i","n"," ","L","a","w","\n","M","B","A"," ","i","n"," ","A","r","t">>,
  <<"P","r","o","j","e","c","t","s","\n","-"," ","t","u","n","e","d"," ","w","i","t","h"," ","b","a","s","h","\n","C","h","a","t"," ","a","p","p","\n","-"," ","u","s","e","s"," ","n","l","p","\n","D","o","c","k","e","r"," ","s","h","o","p"," ","2","0","2","1","\n","-"," ","u","s","e","s"," ","r","e","a","c","t">> >>

Implementations == {"python", "scripts"}
\* the orders in which a set of strings is iterated
Orders == {0, 1}
\* how often the month of the system clock changes
MaxTicks == 1
\* how often the file is parsed
MaxRuns == 2
\* the longest command line: len(sys.argv) is from 1 to MaxArgs
MaxArgs == 3
Today0 == [year |-> 2026, month |-> 11]

\* the inputs of the completeness scores
MaxSkillCount == 11
MaxEducation == 1
MaxMonths == 122
MaxProjectCount == 6
NoScore == [kind |-> "none"]

VARIABLES impl, doc, failing, seed, tie_up, today, ticks, cache, sections, scans, pc, run, outcome,
          first, stdout, exit_code, score_args, score,
          argc, exists, serializable, stderr,
          parser_text, called, results,
          files, rf_model, job_embeddings, job_texts, model_loaded, load_results, prediction, invoked

vars == <<impl, doc, failing, seed, tie_up, today, ticks, cache, sections, scans, pc, run, outcome,
          first, stdout, exit_code, score_args, score,
          argc, exists, serializable, stderr,
          parser_text, called, results,
          files, rf_model, job_embeddings, job_texts, model_loaded, load_results, prediction, invoked>>

\* the command line and the file system main() sees, and whether json.dumps takes the result
main_vars == <<argc, exists, serializable>>
\* a ResumeParser whose extractors are called one by one
extractor_vars == <<parser_text, called, results>>
\* an MLPredictor and the model files it loads
predictor_vars == <<files, rf_model, job_embeddings, job_texts, model_loaded, load_results, prediction, invoked>>

\* no extractor has been called on its own
ExtractorsIdle == parser_text = <<>> /\ called = <<>> /\ results = <<>>
\* MLPredictor.__init__, with no model file at hand
PredictorIdle ==
  /\ files = <<>>
  /\ rf_model = "None" /\ job_embeddings = "None" /\ job_texts = "None"
  /\ model_loaded = FALSE
  /\ load_results = <<>>
  /\ prediction = <<>>
  /\ invoked = 0

NoOutcome == [raised |-> FALSE, value |-> [none |-> TRUE]]

Init ==
  /\ impl \in Implementations
  /\ doc \in 1..Len(Corpus)
  /\ failing \in Faults
  /\ seed \in Orders
  /\ tie_up \in BOOLEAN
  /\ (impl = "scripts" => seed = 0 /\ tie_up = FALSE)
  /\ today = Today0
  /\ ticks = 0
  /\ cache = EmptyMap
  /\ sections = EmptyMap
  /\ scans = 0
  /\ pc = "ready"
  /\ run = 1
  /\ outcome = NoOutcome
  /\ first = [outcome |-> NoOutcome, today |-> Today0]
  /\ stdout = <<>>
  /\ exit_code = -1
  /\ score_args = NoScore
  /\ score = -1
  /\ argc \in 1..MaxArgs
  /\ exists \in BOOLEAN
  /\ serializable \in BOOLEAN
  /\ (argc # 2 \/ ~exists) => /\ doc = 1 /\ failing = "none" /\ seed = 0 /\ ~tie_up /\ serializable
                                /\ (argc # 2 => exists)
  /\ ~serializable => failing = "none"
  /\ stderr = <<>>
  /\ ExtractorsIdle
  /\ PredictorIdle

\* main() with a command line that does not hold exactly the path of the file
MainUsage ==
  /\ pc = "ready"
  /\ argc # 2
  /\ stderr' = Append(stderr, "ERROR: Usage")
  /\ stdout' = Append(stdout, IF impl = "python" THEN default_response ELSE flat_default_response)
  /\ exit_code' = 0
  /\ pc' = "rejected"
  /\ UNCHANGED <<impl, doc, failing, seed, tie_up, today, ticks, cache, sections, scans, run, outcome, first,
                 score_args, score, main_vars, extractor_vars, predictor_vars>>

\* main() with the path of a file that does not exist
MainNotFound ==
  /\ pc = "ready"
  /\ argc = 2 /\ ~exists
  /\ stderr' = Append(stderr, "ERROR: File not found")
  /\ stdout' = Append(stdout, IF impl = "python" THEN default_response ELSE flat_default_response)
  /\ exit_code' = 0
  /\ pc' = "rejected"
  /\ UNCHANGED <<impl, doc, failing, seed, tie_up, today, ticks, cache, sections, scans, run, outcome, first,
                 score_args, score, main_vars, extractor_vars, predictor_vars>>

\* parser.parse() inside main()
Parse ==
  /\ pc = "ready"
  /\ argc = 2 /\ exists
  /\ outcome' = IF impl = "python" THEN parse(Corpus[doc], cache, failing, today, seed, tie_up)
                ELSE flat_parse(Corpus[doc], failing, today)
  /\ cache' = IF impl = "python" THEN cache_after_parse(Corpus[doc], cache, failing) ELSE cache
  /\ scans' = IF impl = "python" THEN scans + scans_in_parse(Corpus[doc], cache, failing) ELSE scans
  /\ sections' = IF impl = "python" THEN sections ELSE sections_after_parse(Corpus[doc], sections, failing)
  /\ first' = IF run = 1 THEN [outcome |-> outcome', today |-> today] ELSE first
  /\ pc' = "parsed"
  /\ UNCHANGED <<impl, doc, failing, seed, tie_up, today, ticks, run, stdout, exit_code, score_args, score>>
  /\ UNCHANGED <<main_vars, stderr, extractor_vars, predictor_vars>>

\* main() without the handler: nothing is written when parse() or json.dumps raised
MainDocumentsUnhandled(parsed, dumps, default) ==
  IF ~parsed.raised /\ dumps THEN <<parsed.value>> ELSE <<>>
\* what main() has written to standard output after parser.parse() when control leaves
\* the inner try statement: print(json.dumps(result)), or print(json.dumps(default))
\* in the handler when parse() or json.dumps raised; json.dumps raises before print writes
MainDocuments(parsed, dumps, default) ==
  IF ~parsed.raised /\ dumps THEN <<parsed.value>> ELSE <<default>>

\* main() after the call: print(json.dumps(result)), or print(json.dumps(default_response))
\* in the handler of the exception; sys.exit(0) either way
MainPrint ==
  /\ pc = "parsed"
  /\ stdout' = stdout \o MainDocuments(outcome, serializable,
                                       IF impl = "python" THEN default_response ELSE flat_default_response)
  /\ stderr' = IF ~outcome.raised /\ serializable THEN stderr
               ELSE Append(stderr, "ERROR: Resume parsing failed")
  /\ exit_code' = 0
  /\ pc' = "printed"
  /\ UNCHANGED <<impl, doc, failing, seed, tie_up, today, ticks, cache, sections, scans, run, outcome, first, score_args, score>>
  /\ UNCHANGED <<main_vars, extractor_vars, predictor_vars>>

\* the same file is parsed again: by a new process (a new parser object, and the sets of
\* strings iterate in an order of their own) or by the same parser object
Rerun ==
  /\ pc = "printed"
  /\ run < MaxRuns
  /\ \E fresh \in BOOLEAN, order \in Orders :
       /\ seed' = IF fresh /\ impl = "python" THEN order ELSE seed
       /\ cache' = IF fresh THEN EmptyMap ELSE cache
       /\ sections' = IF fresh THEN EmptyMap ELSE sections
       /\ scans' = IF fresh THEN 0 ELSE scans
  /\ run' = run + 1
  /\ stdout' = <<>>
  /\ stderr' = <<>>
  /\ exit_code' = -1
  /\ pc' = "ready"
  /\ UNCHANGED <<impl, doc, failing, tie_up, today, ticks, outcome, first, score_args, score>>
  /\ UNCHANGED <<main_vars, extractor_vars, predictor_vars>>

\* the system clock reaches the next month
Tick ==
  /\ ticks < MaxTicks
  /\ ticks' = ticks + 1
  /\ today' = IF today.month = 12 THEN [year |-> today.year + 1, month |-> 1]
              ELSE [year |-> today.year, month |-> today.month + 1]
  /\ UNCHANGED <<impl, doc, failing, seed, tie_up, cache, sections, scans, pc, run, outcome, first, stdout, exit_code,
                 score_args, score>>
  /\ UNCHANGED <<main_vars, stderr, extractor_vars, predictor_vars>>

Next == MainUsage \/ MainNotFound \/ Parse \/ MainPrint \/ Rerun \/ Tick

Spec == Init /\ [][Next]_vars

(***************************************************************************)
(* The completeness scores on their own: the counts of what was extracted  *)
(* are drawn freely, and each calculate_completeness_score is applied.     *)
(***************************************************************************)
\* skills_data with n skills in all, dealt over the technical categories
SkillsOfCount(n) ==
  [c \in RangeOf(TechnicalCategories) |->
     SelectSeq([i \in 1..n |-> IF TechnicalCategories[(i % Len(TechnicalCategories)) + 1] = c
                               THEN <<"s","k","i","l","l">> ELSE <<>>], LAMBDA s : s # <<>>)]
\* a list of n entries
EntriesOfCount(n) == [i \in 1..n |-> <<"e","n","t","r","y">>]

ScoreInputs ==
  [kind : {"python"}, skills : 0..MaxSkillCount, education : 0..MaxEducation,
   experience_months : 0..MaxMonths, projects : 0..MaxProjectCount]
  \cup
  [kind : {"scripts"}, email : BOOLEAN, phone : BOOLEAN, skills_section : BOOLEAN,
   education_section : BOOLEAN, experience_section : BOOLEAN, projects_section : BOOLEAN,
   skills : 0..MaxSkillCount, education : 0..MaxEducation, experience_months : {0, 1, MaxMonths}]

InitScore ==
  /\ score_args \in ScoreInputs
  /\ impl = score_args.kind
  /\ tie_up \in BOOLEAN
  /\ (impl = "scripts" => tie_up = FALSE)
  /\ doc = 1
  /\ failing = "none"
  /\ seed = 0
  /\ today = Today0
  /\ ticks = 0
  /\ cache = EmptyMap
  /\ sections = EmptyMap
  /\ scans = 0
  /\ pc = "ready"
  /\ run = 1
  /\ outcome = NoOutcome
  /\ first = [outcome |-> NoOutcome, today |-> Today0]
  /\ stdout = <<>>
  /\ exit_code = -1
  /\ score = -1
  /\ argc = 2 /\ exists = TRUE /\ serializable = TRUE
  /\ stderr = <<>>
  /\ ExtractorsIdle
  /\ PredictorIdle

\* calculate_completeness_score of the structured parser
CalculateScore ==
  /\ pc = "ready"
  /\ score_args.kind = "python"
  /\ score' = CalculateCompletenessScore(SkillsOfCount(score_args.skills), EntriesOfCount(score_args.education),
                                         score_args.experience_months, score_args.projects, tie_up)
  /\ pc' = "scored"
  /\ UNCHANGED <<impl, doc, failing, seed, tie_up, today, ticks, cache, sections, scans, run, outcome, first, stdout,
                 exit_code, score_args>>
  /\ UNCHANGED <<main_vars, stderr, extractor_vars, predictor_vars>>

\* calculate_completeness_score of the flat-output parser
FlatCalculateScore ==
  /\ pc = "ready"
  /\ score_args.kind = "scripts"
  /\ score' = flat_score(score_args.email, score_args.phone, score_args.skills_section,
                         score_args.education_section, score_args.experience_section,
                         score_args.projects_section, EntriesOfCount(score_args.skills),
                         EntriesOfCount(score_args.education), score_args.experience_months)
  /\ pc' = "scored"
  /\ UNCHANGED <<impl, doc, failing, seed, tie_up, today, ticks, cache, sections, scans, run, outcome, first, stdout,
                 exit_code, score_args>>
  /\ UNCHANGED <<main_vars, stderr, extractor_vars, predictor_vars>>

NextScore == CalculateScore \/ FlatCalculateScore

SpecScore == InitScore /\ [][NextScore]_vars

(***************************************************************************)
(* The four field extractors of the structured parser, called one by one   *)
(* in any order on one parser object after parse() has stored the text.    *)
(***************************************************************************)
ExtractorNames == {"extract_skills", "extract_education", "extract_experience_details",
                   "extract_projects_details"}

\* the section mapping with the lines of one section taken out
WithoutSection(mapping, key) == [k \in DOMAIN mapping \ {key} |-> mapping[k]]
\* an extractor that takes the lines it reads out of the cached mapping
ExtractorCallConsuming(name, text, cached, clock, order) ==
  LET read(mapping) ==
        CASE name = "extract_skills" ->
               [result |-> ExtractSkills(text, mapping, order), text |-> text,
                cache |-> WithoutSection(mapping, "skills")]
          [] name = "extract_education" ->
               [result |-> ExtractEducation(text), text |-> text, cache |-> cached]
          [] name = "extract_experience_details" ->
               [result |-> ExtractExperienceDetails(mapping, clock), text |-> text,
                cache |-> WithoutSection(mapping, "experience")]
          [] OTHER ->
               [result |-> ExtractProjectsDetails(mapping), text |-> text,
                cache |-> WithoutSection(mapping, "projects")]
  IN read(GetSections(TextLines(text), cached))
\* one call of an extractor on a parser with self.text_content = text and
\* self._sections_cache = cached: what it returns and the two fields after the call.
\* extract_education reads the text only; the others ask _get_sections, which stores
\* the mapping it returns, and read their own section of it.
ExtractorCall(name, text, cached, clock, order) ==
  LET read(mapping) ==
        CASE name = "extract_skills" ->
               [result |-> ExtractSkills(text, mapping, order), text |-> text, cache |-> mapping]
          [] name = "extract_education" ->
               [result |-> ExtractEducation(text), text |-> text, cache |-> cached]
          [] name = "extract_experience_details" ->
               [result |-> ExtractExperienceDetails(mapping, clock), text |-> text, cache |-> mapping]
          [] OTHER ->
               [result |-> ExtractProjectsDetails(mapping), text |-> text, cache |-> mapping]
  IN read(GetSections(TextLines(text), cached))

\* parse() has stored the stripped text of the file; no extractor has run
InitExtractors ==
  /\ impl = "python"
  /\ doc \in {d \in 1..Len(Corpus) : Strip(extract_text(Corpus[d])) # <<>>}
  /\ failing = "none"
  /\ seed \in Orders
  /\ tie_up = FALSE
  /\ today = Today0
  /\ ticks = 0
  /\ cache = EmptyMap
  /\ sections = EmptyMap
  /\ scans = 0
  /\ pc = "ready"
  /\ run = 1
  /\ outcome = NoOutcome
  /\ first = [outcome |-> NoOutcome, today |-> Today0]
  /\ stdout = <<>>
  /\ exit_code = -1
  /\ score_args = NoScore
  /\ score = -1
  /\ argc = 2 /\ exists = TRUE /\ serializable = TRUE
  /\ stderr = <<>>
  /\ parser_text = Strip(extract_text(Corpus[doc]))
  /\ called = <<>>
  /\ results = <<>>
  /\ PredictorIdle

\* the effect of one call on the parser object
Called(name) ==
  /\ \A i \in 1..Len(called) : called[i] # name
  /\ LET done(call) ==
           /\ results' = Append(results, call.result)
           /\ parser_text' = call.text
           /\ cache' = call.cache
     IN done(ExtractorCall(name, parser_text, cache, today, seed))
  /\ called' = Append(called, name)
  /\ UNCHANGED <<impl, doc, failing, seed, tie_up, today, ticks, sections, scans, pc, run, outcome, first,
                 stdout, exit_code, score_args, score, main_vars, stderr, predictor_vars>>

CallExtractSkills == Called("extract_skills")
CallExtractEducation == Called("extract_education")
CallExtractExperienceDetails == Called("extract_experience_details")
CallExtractProjectsDetails == Called("extract_projects_details")

NextExtractors ==
  CallExtractSkills \/ CallExtractEducation \/ CallExtractExperienceDetails \/ CallExtractProjectsDetails

SpecExtractors == InitExtractors /\ [][NextExtractors]_vars

(***************************************************************************)
(* python/ml_predictor.py: MLPredictor.  A model file is absent, cannot be *)
(* unpickled, unpickles to None, or unpickles to an object of the kind     *)
(* expected (a model, a dictionary).                                       *)
(***************************************************************************)
FileKinds == {"absent", "corrupt", "none", "object"}
\* the files load_models looks for: the model in models_dir and in its parent, the
\* embeddings and the texts in the parent
ModelFiles == [rf_in_models_dir : FileKinds, rf_in_parent : FileKinds,
               job_embeddings : FileKinds, job_texts : FileKinds]
\* how often load_models is called
MaxLoads == 2
\* how often the random-forest model is invoked
MaxInvocations == 2
\* len(features) of a call
FeatureCounts == {17, 18}

\* MLPredictor.load_models: the fields after the call and the success of the result
load_models(found, model, embeddings, texts, loaded) ==
  LET after(rf, emb, txt, flag, success) ==
        [rf_model |-> rf, job_embeddings |-> emb, job_texts |-> txt, model_loaded |-> flag,
         success |-> success]
      unpickled(kind) == IF kind = "none" THEN "None" ELSE "object"
      \* the dictionary of the result takes len() of both mappings, after model_loaded is set
      reported(rf, emb, txt) == after(rf, emb, txt, TRUE, emb # "None" /\ txt # "None")
      with_texts(rf, emb) ==
        IF found.job_texts = "corrupt" THEN after(rf, emb, texts, loaded, FALSE)
        ELSE reported(rf, emb, IF found.job_texts = "absent" THEN "empty" ELSE unpickled(found.job_texts))
      with_embeddings(rf) ==
        IF found.job_embeddings = "corrupt" THEN after(rf, embeddings, texts, loaded, FALSE)
        ELSE with_texts(rf, IF found.job_embeddings = "absent" THEN "empty"
                            ELSE unpickled(found.job_embeddings))
      with_model(rf_file) ==
        IF rf_file \in {"absent", "corrupt"} THEN after(model, embeddings, texts, loaded, FALSE)
        ELSE with_embeddings(unpickled(rf_file))
  IN with_model(IF found.rf_in_models_dir # "absent" THEN found.rf_in_models_dir ELSE found.rf_in_parent)

\* MLPredictor.predict_candidate_strength: the result, and whether the model was invoked
predict_candidate_strength(loaded, model, features) ==
  IF ~loaded \/ model = "None"
  THEN [success |-> FALSE, error |-> "Model not loaded", invoked |-> FALSE]
  ELSE IF features # 18
  THEN [success |-> FALSE, error |-> "Feature count mismatch", invoked |-> FALSE]
  ELSE [success |-> TRUE, error |-> "", invoked |-> TRUE]
\* MLPredictor.predict_shortlist_probability: the failure of predict_candidate_strength,
\* or the probability combined from its strength
predict_shortlist_probability(loaded, model, features) ==
  predict_candidate_strength(loaded, model, features)

\* MLPredictor.__init__, with any model files at hand
InitPredictor ==
  /\ impl = "python"
  /\ doc = 1
  /\ failing = "none"
  /\ seed = 0
  /\ tie_up = FALSE
  /\ today = Today0
  /\ ticks = 0
  /\ cache = EmptyMap
  /\ sections = EmptyMap
  /\ scans = 0
  /\ pc = "ready"
  /\ run = 1
  /\ outcome = NoOutcome
  /\ first = [outcome |-> NoOutcome, today |-> Today0]
  /\ stdout = <<>>
  /\ exit_code = -1
  /\ score_args = NoScore
  /\ score = -1
  /\ argc = 2 /\ exists = TRUE /\ serializable = TRUE
  /\ stderr = <<>>
  /\ ExtractorsIdle
  /\ files \in ModelFiles
  /\ rf_model = "None" /\ job_embeddings = "None" /\ job_texts = "None"
  /\ model_loaded = FALSE
  /\ load_results = <<>>
  /\ prediction = <<>>
  /\ invoked = 0

\* a call of load_models
LoadModels ==
  /\ Len(load_results) < MaxLoads
  /\ LET done(after) ==
           /\ rf_model' = after.rf_model
           /\ job_embeddings' = after.job_embeddings
           /\ job_texts' = after.job_texts
           /\ model_loaded' = after.model_loaded
           /\ load_results' = Append(load_results, after.success)
     IN done(load_models(files, rf_model, job_embeddings, job_texts, model_loaded))
  /\ UNCHANGED <<files, prediction, invoked>>
  /\ UNCHANGED <<impl, doc, failing, seed, tie_up, today, ticks, cache, sections, scans, pc, run, outcome, first,
                 stdout, exit_code, score_args, score, main_vars, stderr, extractor_vars>>

\* the result of a prediction, kept with the name of the method
Predicted(method, result) ==
  /\ prediction' = [method |-> method, success |-> result.success, error |-> result.error]
  /\ invoked' = IF result.invoked THEN invoked + 1 ELSE invoked
  /\ UNCHANGED <<files, rf_model, job_embeddings, job_texts, model_loaded, load_results>>
  /\ UNCHANGED <<impl, doc, failing, seed, tie_up, today, ticks, cache, sections, scans, pc, run, outcome, first,
                 stdout, exit_code, score_args, score, main_vars, stderr, extractor_vars>>

\* a call of predict_candidate_strength
PredictCandidateStrength ==
  /\ invoked < MaxInvocations
  /\ \E features \in FeatureCounts :
       Predicted("predict_candidate_strength", predict_candidate_strength(model_loaded, rf_model, features))

\* a call of predict_shortlist_probability
PredictShortlistProbability ==
  /\ invoked < MaxInvocations
  /\ \E features \in FeatureCounts :
       Predicted("predict_shortlist_probability", predict_shortlist_probability(model_loaded, rf_model, features))

\* the model files are replaced between two calls of load_models
ReplaceFiles ==
  /\ load_results # <<>>
  /\ Len(load_results) < MaxLoads
  /\ \E found \in ModelFiles : found # files /\ files' = found
  /\ UNCHANGED <<rf_model, job_embeddings, job_texts, model_loaded, load_results, prediction, invoked>>
  /\ UNCHANGED <<impl, doc, failing, seed, tie_up, today, ticks, cache, sections, scans, pc, run, outcome, first,
                 stdout, exit_code, score_args, score, main_vars, stderr, extractor_vars>>

NextPredictor == LoadModels \/ PredictCandidateStrength \/ PredictShortlistProbability \/ ReplaceFiles

SpecPredictor == InitPredictor /\ [][NextPredictor]_vars

(***************************************************************************)
(* Properties.                                                             *)
(***************************************************************************)
\* parse() has ended, by returning or by raising
Parsed == pc \in {"parsed", "printed"}
\* parse() of the structured parser has returned a record
PythonResult == Parsed /\ impl = "python" /\ ~outcome.raised
\* the record main() prints when parse() raises
DefaultOf(implementation) == IF implementation = "python" THEN default_response ELSE flat_default_response
\* what parse() gives at the present date when no step fails
CleanOutcome == IF impl = "python" THEN parse(Corpus[doc], EmptyMap, "none", today, seed, tie_up)
                ELSE flat_parse(Corpus[doc], "none", today)
\* the fields of the output an extractor fills
FieldsOf(implementation, extractor) ==
  IF implementation = "python"
  THEN CASE extractor = "skills" -> RangeOf(TechnicalCategories) \cup {"soft_skills"}
         [] extractor = "education" -> {"education"}
         [] extractor = "experience" -> {"experience", "experience_months_total"}
         [] OTHER -> {"projects"}
  ELSE CASE extractor = "skills" -> {"skills"}
         [] extractor = "education" -> {"education"}
         [] extractor = "experience" -> {"experience_months"}
         [] OTHER -> {"projects_count"}
SkillLists == RangeOf(TechnicalCategories) \cup {"soft_skills"}
\* lit, in lower case, stands in text between characters that are no word characters
OccursWordBounded(lit, text) ==
  \E i \in 1..Len(text) : /\ AtCI(text, i, lit)
                          /\ (i = 1 \/ ~IsWordChar(text[i - 1]))
                          /\ (i + Len(lit) > Len(text) \/ ~IsWordChar(text[i + Len(lit)]))
IsSortedList(seq) == \A i \in 1..(Len(seq) - 1) : ~StrLess(seq[i + 1], seq[i])
SkillsScenario == <<"S","k","i","l","l","s","\n","P","y","t","h","o","n",","," ","R","e","a","c","t",","," ","A","W","S",","," ","D","o","c","k","e","r",","," ","P","o","s","t","g","r","e","S","Q","L">>
ExperienceScenario == <<<<"S","e","n","i","o","r"," ","E","n","g","i","n","e","e","r">>, <<"T","e","c","h"," ","C","o","r","p">>, <<"J","a","n"," ","2","0","2","0"," ","-"," ","D","e","c"," ","2","0","2","1">>>>
\* the lines of the experience section of the resume file
ExperienceLines ==
  SectionLines(GetSections(TextLines(Strip(extract_text(Corpus[doc]))), EmptyMap), "experience")

\* C1: whatever the input (any text, a file that gives no text, a failing step), parse()
\* ends without an exception and its record has exactly the keys of the output schema,
\* the keys of the default record
C1_ParseNeverRaises ==
  Parsed => /\ ~outcome.raised
            /\ DOMAIN outcome.value = DOMAIN DefaultOf(impl)
\* a failing extractor ends parse() of the structured parser with an exception
C1_ExtractorFailureEscapes ==
  Parsed /\ impl = "python" /\ failing \in Extractors /\ Corpus[doc] # <<>> /\ outcome.raised

\* C2: when exactly one extractor raises, parse() still returns; the fields of that
\* extractor are at their defaults, every other field has the value of the run without
\* the failure, and the completeness score still counts what succeeded: it is the score of
\* that run when the failed fields were empty there anyway, and never lower than it by
\* more than the share of one field (a quarter in the structured parser, a tenth in the
\* flat one)
C2_OneFailureOneField ==
  (Parsed /\ run = 1 /\ today = first.today /\ failing \in Extractors) =>
    /\ ~outcome.raised
    /\ ~CleanOutcome.raised
    /\ \A k \in FieldsOf(impl, failing) : outcome.value[k] = DefaultOf(impl)[k]
    /\ \A k \in DOMAIN CleanOutcome.value \ (FieldsOf(impl, failing) \cup {"resume_completeness_score"}) :
         outcome.value[k] = CleanOutcome.value[k]
    /\ outcome.value.resume_completeness_score
         >= CleanOutcome.value.resume_completeness_score - (IF impl = "python" THEN 25 ELSE 10)
    /\ ((\A k \in FieldsOf(impl, failing) : CleanOutcome.value[k] = DefaultOf(impl)[k])
          => outcome.value.resume_completeness_score = CleanOutcome.value.resume_completeness_score)
\* the flat parser returns a score of zero for a resume that scores without the failure
C2_FailureZeroesScore ==
  /\ Parsed /\ impl = "scripts" /\ failing = "education"
  /\ ~outcome.raised
  /\ outcome.value.resume_completeness_score = 0
  /\ CleanOutcome.value.resume_completeness_score > 10

\* C3: for an empty text parse() returns, and every field of its record is at its
\* default: the lists empty, the months, the project count and the score zero
C3_EmptyTextGivesDefaults ==
  (Parsed /\ Corpus[doc] = <<>> /\ failing = "none") =>
    /\ ~outcome.raised
    /\ outcome.value = DefaultOf(impl)
\* parse() of the structured parser raises on the empty text
C3_EmptyTextRaises ==
  Parsed /\ impl = "python" /\ Corpus[doc] = <<>> /\ failing = "none" /\ outcome.raised

\* C4: the completeness score of either parser lies between 0 and 1 (0 and 100
\* hundredths), whatever the numbers of skills, education entries, months and projects
C4_ScoreInUnitInterval == pc = "scored" => score >= 0 /\ score <= 100
\* the structured score with every part beyond its cap
C4_ScoreAtEveryCap ==
  /\ pc = "scored" /\ score_args.kind = "python"
  /\ score_args.skills > 10 /\ score_args.education > 0
  /\ score_args.experience_months > 120 /\ score_args.projects > 5
  /\ score = 100

\* C5: in every record parse() returns, experience_months_total is the sum of
\* duration_months over the entries of experience, 0 for no entry; the estimate of
\* extract_experience_months is not what is reported
C5_TotalIsSumOfEntries ==
  PythonResult =>
    outcome.value.experience_months_total
      = SumSeq([e \in 1..Len(outcome.value.experience) |-> outcome.value.experience[e].duration_months])
\* a resume with an entry whose whole-document estimate is another number of months
C5_EstimateDiffers ==
  /\ PythonResult
  /\ outcome.value.experience # <<>>
  /\ ExtractExperienceMonths(Strip(extract_text(Corpus[doc])), today) > 0
  /\ ExtractExperienceMonths(Strip(extract_text(Corpus[doc])), today) # outcome.value.experience_months_total

\* C6: in the record parse() returns no skill stands in two of the five category
\* lists, and no list holds a skill twice
C6_SkillInOneCategoryOnce ==
  PythonResult =>
    /\ \A c \in RangeOf(TechnicalCategories) :
         \A i, j \in 1..Len(outcome.value[c]) : i # j => outcome.value[c][i] # outcome.value[c][j]
    /\ \A c, d \in RangeOf(TechnicalCategories) :
         c # d => RangeOf(outcome.value[c]) \cap RangeOf(outcome.value[d]) = {}
\* skills of the section, of the harvest and of a project, filed under four categories
C6_SkillsFromSeveralSources ==
  /\ PythonResult
  /\ Cardinality({c \in RangeOf(TechnicalCategories) : outcome.value[c] # <<>>}) >= 4
  /\ outcome.value.projects # <<>>
  /\ \E p \in 1..Len(outcome.value.projects) : outcome.value.projects[p].tools_methods_used # <<>>

\* C7: every skill parse() reports, in a category list or as a soft skill, occurs in the
\* text of the resume, in any case of letters and between word boundaries
C7_ReportedSkillsOccurInText ==
  PythonResult =>
    \A c \in SkillLists : \A i \in 1..Len(outcome.value[c]) :
      OccursWordBounded(Lower(outcome.value[c][i]), Corpus[doc])
\* the soft skill inferred from a responsibility that does not name it
C7_InferredSoftSkill ==
  /\ PythonResult
  /\ \E i \in 1..Len(outcome.value.soft_skills) :
       /\ outcome.value.soft_skills[i] = <<"l","e","a","d","e","r","s","h","i","p">>
       /\ ~Contains(Lower(Corpus[doc]), <<"l","e","a","d","e","r","s","h","i","p">>)

\* C8 as stated: a second parse of the same text gives the output of the first, and the
\* skill lists are sorted
C8_SameOutputEveryRun ==
  /\ (Parsed /\ run > 1) => outcome = first.outcome
  /\ PythonResult => \A c \in SkillLists : IsSortedList(outcome.value[c])
\* C8: a second parse of the same text, by a new process or by the same parser, while
\* the system clock shows the month of the first parse, gives the output of the first;
\* the category lists and the soft skills are sorted, in whatever order sets iterate
C8_SameOutputInSameMonth ==
  /\ (Parsed /\ run > 1 /\ today = first.today) => outcome = first.outcome
  /\ PythonResult => \A c \in SkillLists : IsSortedList(outcome.value[c])
\* a second parse in the same month that returned lists of several skills
C8_SecondParseSameMonth ==
  /\ PythonResult /\ run > 1 /\ today = first.today
  /\ \E c \in SkillLists : Len(outcome.value[c]) >= 2
  /\ outcome.value.experience # <<>>

\* C9: for a text with the skills section 'Skills / Python, React, AWS, Docker,
\* PostgreSQL' the output has Python among the programming languages, React among the
\* frameworks, AWS and Docker among the tools and PostgreSQL, so written, among the
\* databases
C9_SkillsScenario ==
  (PythonResult /\ Contains(Corpus[doc], SkillsScenario)) =>
    /\ <<"P","y","t","h","o","n">> \in RangeOf(outcome.value.programming_languages)
    /\ <<"R","e","a","c","t">> \in RangeOf(outcome.value.frameworks_libraries)
    /\ <<"A","W","S">> \in RangeOf(outcome.value.tools_platforms)
    /\ <<"D","o","c","k","e","r">> \in RangeOf(outcome.value.tools_platforms)
    /\ <<"P","o","s","t","g","r","e","S","Q","L">> \in RangeOf(outcome.value.databases)
\* the database comes out with the capital letters of the final casing pass
C9_CasingPassRewrites ==
  /\ PythonResult /\ Contains(Corpus[doc], SkillsScenario)
  /\ outcome.value.databases = <<<<"P","o","s","t","g","r","e","s","q","l">>>>

\* C10: for an experience section with the lines 'Senior Engineer', 'Tech Corp',
\* 'Jan 2020 - Dec 2021' the output has one entry: full-time, 24 months, from 2020-01
\* to 2021-12
C10_ExperienceScenario ==
  (PythonResult /\ ExperienceLines = ExperienceScenario) =>
    /\ Len(outcome.value.experience) = 1
    /\ outcome.value.experience[1].type = "full-time"
    /\ outcome.value.experience[1].duration_months = 24
    /\ outcome.value.experience[1].start_date = <<"2","0","2","0","-","0","1">>
    /\ outcome.value.experience[1].end_date = <<"2","0","2","1","-","1","2">>
\* the scenario parsed: the role and the company read from the lines before the dates
C10_ScenarioParsed ==
  /\ PythonResult /\ ExperienceLines = ExperienceScenario
  /\ Len(outcome.value.experience) = 1
  /\ outcome.value.experience[1].role = <<"S","e","n","i","o","r"," ","E","n","g","i","n","e","e","r">>
  /\ outcome.value.experience[1].company = <<"T","e","c","h"," ","C","o","r","p">>

EducationScenario == <<<<"B","a","c","h","e","l","o","r"," ","o","f"," ","S","c","i","e","n","c","e"," ","i","n"," ","C","o","m","p","u","t","e","r"," ","S","c","i","e","n","c","e">>, <<"S","t","a","n","f","o","r","d"," ","U","n","i","v","e","r","s","i","t","y",","," ","2","0","2","0">>>>
\* the lines of the education section of the resume file
EducationLines ==
  SectionLines(GetSections(TextLines(Strip(extract_text(Corpus[doc]))), EmptyMap), "education")

\* C11: for an education section with the lines 'Bachelor of Science in Computer Science'
\* and 'Stanford University, 2020' the output has exactly one education entry: its degree
\* is the full degree name in normalized casing, its institution is exactly
\* 'Stanford University', its end_year is '2020' and its start_year is empty
C11_EducationScenario ==
  (PythonResult /\ EducationLines = EducationScenario) =>
    /\ Len(outcome.value.education) = 1
    /\ outcome.value.education[1].degree = <<"B","a","c","h","e","l","o","r"," ","O","f"," ","S","c","i","e","n","c","e">>
    /\ outcome.value.education[1].institution = <<"S","t","a","n","f","o","r","d"," ","U","n","i","v","e","r","s","i","t","y">>
    /\ outcome.value.education[1].end_year = <<"2","0","2","0">>
    /\ outcome.value.education[1].start_year = <<>>
\* the scenario parsed: the field of study read from the degree line
C11_EducationParsed ==
  /\ PythonResult /\ EducationLines = EducationScenario
  /\ Len(outcome.value.education) = 1
  /\ outcome.value.education[1].field = <<"c","o","m","p","u","t","e","r"," ","s","c","i","e","n","c","e">>

FallbackScenario == <<"P","y","t","h","o","n"," ","d","e","v","e","l","o","p","e","r",","," ","b","u","i","l","t"," ","3"," ","p","r","o","j","e","c","t","s">>
\* no line of the resume file is taken for a section heading, by either segmenter
NoHeading ==
  /\ \A i \in 1..Len(TextLines(Strip(extract_text(Corpus[doc])))) :
       DetectSectionKey(TextLines(Strip(extract_text(Corpus[doc])))[i]) = None
  /\ \A i \in 1..Len(flat_lines(Corpus[doc])) :
       /\ best_match(flat_lines(Corpus[doc])[i]) = None
       /\ ~is_separator(flat_lines(Corpus[doc])[i])
\* the number count_projects gives parse() of the structured parser
ProjectsCounted == CountProjects(Strip(extract_text(Corpus[doc])))

\* C12: for a text without any section heading that holds 'Python developer, built 3
\* projects', the scan of the whole document still reports Python and the project count
\* is at least 1
C12_FallbackScenario ==
  (Parsed /\ failing = "none" /\ NoHeading /\ Contains(Corpus[doc], FallbackScenario)) =>
    IF impl = "python"
    THEN /\ <<"P","y","t","h","o","n">> \in RangeOf(outcome.value.programming_languages)
         /\ ProjectsCounted >= 1
    ELSE /\ <<"P","y","t","h","o","n">> \in RangeOf(outcome.value.skills)
         /\ outcome.value.projects_count >= 1
\* the structured parser reports Python for the scenario and counts no project
C12_NoProjectCounted ==
  /\ PythonResult /\ NoHeading /\ Contains(Corpus[doc], FallbackScenario)
  /\ <<"P","y","t","h","o","n">> \in RangeOf(outcome.value.programming_languages)
  /\ ProjectsCounted = 0
  /\ outcome.value.projects = <<>>

\* C13: when the section segmentation raises, parse() goes on: the section mapping is the
\* single fallback section that holds the whole document, and the extractors of skills,
\* education, experience and projects run on the text of the whole document and give
\* their results to the output
C13_SegmentationFailure ==
  (Parsed /\ run = 1 /\ failing = "segment" /\ Strip(Corpus[doc]) # <<>>) =>
    /\ ~outcome.raised
    /\ impl = "scripts" =>
         /\ sections = put(EmptyMap, "body", Corpus[doc])
         /\ outcome.value = flat_fields(sections, Corpus[doc], "none", first.today)
    /\ impl = "python" => DOMAIN cache = {"body"}
\* the segmentation of the structured parser raises and parse() ends with the exception,
\* no section mapping stored
C13_SegmentationFailureEscapes ==
  /\ Parsed /\ impl = "python" /\ failing = "segment" /\ Strip(Corpus[doc]) # <<>>
  /\ outcome.raised
  /\ cache = EmptyMap
\* the flat-output parser goes on with the fallback section
C13_FlatFallbackSection ==
  /\ Parsed /\ impl = "scripts" /\ failing = "segment"
  /\ sections = put(EmptyMap, "body", Corpus[doc])
  /\ outcome.value.skills # <<>>

\* parse() of the flat-output parser has returned its record, no step failing
FlatResult == Parsed /\ impl = "scripts" /\ failing = "none"

\* C14: when the resume has a skills section, the skills list of the output holds the
\* known skills that the section lists, and holds no skill that is named only in another
\* section
C14_SkillsFromSectionOnly ==
  (FlatResult /\ "skills" \in DOMAIN sections) =>
    /\ \A k \in 1..Len(flat_all_skills) :
         _keyword_in_text(flat_all_skills[k], Lower(sections["skills"]))
           => \E s \in RangeOf(outcome.value.skills) : Lower(s) = flat_all_skills[k]
    /\ \A s \in RangeOf(outcome.value.skills) : OccursWordBounded(Lower(s), sections["skills"])
\* Python and Java stand in the experience section only and are reported next to the
\* skills of the skills section
C14_SkillOfOtherSection ==
  /\ FlatResult /\ "skills" \in DOMAIN sections /\ "experience" \in DOMAIN sections
  /\ {<<"P","y","t","h","o","n">>, <<"J","a","v","a">>, <<"J","a","v","a","S","c","r","i","p","t">>, <<"R","e","a","c","t">>, <<"A","n","g","u","l","a","r">>} \subseteq RangeOf(outcome.value.skills)
  /\ ~Contains(Lower(sections["skills"]), <<"p","y","t","h","o","n">>)
  /\ OccursWordBounded(<<"p","y","t","h","o","n">>, sections["experience"])
  /\ OccursWordBounded(<<"j","a","v","a">>, sections["experience"])

EducationLineScenario == <<"M","a","s","t","e","r"," ","o","f"," ","S","c","i","e","n","c","e",","," ","E","x","a","m","p","l","e"," ","U","n","i","v","e","r","s","i","t","y",","," ","2","0","2","2">>

\* C15: for an education section that holds the line 'Master of Science, Example
\* University, 2022' the education list has one entry: its degree is the degree type
\* 'Master', its institution is the name 'Example University' alone, and its year is the
\* integer 2022
C15_EducationLineScenario ==
  (FlatResult /\ "education" \in DOMAIN sections
     /\ InList(SplitOn(sections["education"], NL), EducationLineScenario)) =>
    /\ Len(outcome.value.education) = 1
    /\ outcome.value.education[1].degree = <<"M","a","s","t","e","r">>
    /\ outcome.value.education[1].institution = <<"E","x","a","m","p","l","e"," ","U","n","i","v","e","r","s","i","t","y">>
    /\ outcome.value.education[1].year = 2022
\* the entry of the scenario: the institution carries the text of the degree before it,
\* and the year is None
C15_InstitutionKeepsDegree ==
  /\ FlatResult /\ "education" \in DOMAIN sections
  /\ InList(SplitOn(sections["education"], NL), EducationLineScenario)
  /\ Len(outcome.value.education) = 1
  /\ outcome.value.education[1].degree = <<"M","a","s","t","e","r">>
  /\ outcome.value.education[1].institution = <<"M","a","s","t","e","r"," ","o","f"," ","S","c","i","e","n","c","e",","," ","E","x","a","m","p","l","e"," ","U","n","i","v","e","r","s","i","t","y">>
  /\ outcome.value.education[1].year = 0

\* C16: the sections are computed once for a parser object: after the first call of
\* _get_sections no later call runs the line scan again, whatever the document, one
\* without any heading included
C16_SectionsScannedOnce ==
  (impl = "python" /\ failing = "none") => scans <= 1
\* a document without a heading: each of the three calls of one parse() has run the scan
C16_ScannedByEveryCall ==
  /\ PythonResult /\ failing = "none" /\ run = 1
  /\ cache = EmptyMap
  /\ scans = 3
\* a document with a heading, parsed twice by the same parser object, is scanned once
C16_ScannedOnceWithHeading ==
  /\ PythonResult /\ failing = "none" /\ run = 2
  /\ cache # EmptyMap
  /\ scans = 1

\* the lines the segmenter of the implementation walks
DocumentLines == IF impl = "python" THEN TextLines(Strip(extract_text(Corpus[doc])))
                 ELSE flat_lines(Corpus[doc])
\* the section a line opens as a heading, None for a line that is no heading
HeadingOf(line) == IF impl = "python" THEN DetectSectionKey(line) ELSE best_match(line)
\* the section mapping the parser object holds
Segmented == IF impl = "python" THEN cache ELSE sections
\* the lines held by section key of the mapping
ContentLines(key) == IF impl = "python" THEN Segmented[key] ELSE SplitOn(Segmented[key], NL)
\* the segmenter has run on the document
SegmenterRan == Parsed /\ failing = "none" /\ Strip(Corpus[doc]) # <<>>

\* C17: a line the segmenter recognises as a heading opens the buffer of its section (the
\* line after it, when no heading itself, is content of that section) and is itself stored
\* in no section
C17_HeadingLineNotStored ==
  SegmenterRan =>
    /\ \A i \in 1..Len(DocumentLines) : \A key \in DOMAIN Segmented :
         HeadingOf(DocumentLines[i]) # None => ~InList(ContentLines(key), DocumentLines[i])
    /\ \A i \in 1..(Len(DocumentLines) - 1) :
         (/\ HeadingOf(DocumentLines[i]) # None
          /\ HeadingOf(DocumentLines[i + 1]) = None
          /\ \A j \in 1..Len(DocumentLines) :
               HeadingOf(DocumentLines[j]) = HeadingOf(DocumentLines[i]) => j = i)
           => /\ HeadingOf(DocumentLines[i]) \in DOMAIN Segmented
              /\ InList(ContentLines(HeadingOf(DocumentLines[i])), DocumentLines[i + 1])
\* the flat-output parser keeps the heading as the first line of the section it opens
C17_HeadingKept ==
  /\ SegmenterRan /\ impl = "scripts"
  /\ "skills" \in DOMAIN sections
  /\ HeadingOf(Head(ContentLines("skills"))) = "skills"
  /\ Len(ContentLines("skills")) > 1

\* the section of the most recent heading before line i, None when no heading precedes it
RecentHeading(i) ==
  LET recent(headings) == IF headings = {} THEN None ELSE HeadingOf(DocumentLines[SetMax(headings)])
  IN recent({j \in 1..(i - 1) : HeadingOf(DocumentLines[j]) # None})
\* the sections that hold line among their content
HoldersOf(line) == {key \in DOMAIN Segmented : InList(ContentLines(key), line)}
\* how many lines that are no headings the sections hold in all
RECURSIVE StoredCount(_)
StoredCount(keys) ==
  IF keys = {} THEN 0
  ELSE LET key == CHOOSE k \in keys : TRUE
       IN Len(SelectSeq(ContentLines(key), LAMBDA l : l # <<>> /\ HeadingOf(l) = None))
          + StoredCount(keys \ {key})

\* C18: after the segmentation every line that is no heading is held in exactly one
\* section: the section of the most recent heading before it, or the default section
\* (header or body) when no heading precedes it; no such line is dropped, be it before
\* the first heading or under a heading that occurs again later
C18_EveryLineInItsSection ==
  SegmenterRan =>
    /\ \A i \in 1..Len(DocumentLines) :
         HeadingOf(DocumentLines[i]) = None =>
           HoldersOf(DocumentLines[i]) =
             IF RecentHeading(i) # None THEN {RecentHeading(i)}
             ELSE DOMAIN Segmented \cap {"header", "body"}
    /\ \A i \in 1..Len(DocumentLines) :
         HeadingOf(DocumentLines[i]) = None => HoldersOf(DocumentLines[i]) # {}
    /\ StoredCount(DOMAIN Segmented)
         = Len(SelectSeq(DocumentLines, LAMBDA l : HeadingOf(l) = None))
\* the structured parser drops the line before the first heading
C18_LineBeforeHeadingDropped ==
  /\ SegmenterRan /\ impl = "python"
  /\ HeadingOf(DocumentLines[1]) = None
  /\ \E i \in 2..Len(DocumentLines) : HeadingOf(DocumentLines[i]) # None
  /\ HoldersOf(DocumentLines[1]) = {}
\* the flat-output parser drops the lines of the first of two sections of one name
C18_RepeatedSectionOverwritten ==
  /\ SegmenterRan /\ impl = "scripts"
  /\ \E i \in 1..Len(DocumentLines) :
       /\ HeadingOf(DocumentLines[i]) = None
       /\ RecentHeading(i) = "skills"
       /\ HoldersOf(DocumentLines[i]) = {}

\* no line of the document is a heading for the segmenter of the implementation
NoHeadingFound == \A i \in 1..Len(DocumentLines) : HeadingOf(DocumentLines[i]) = None
\* a mapping of the structured parser in which the document is the content of every section of keys
WholeDocumentAs(keys) == [k \in keys |-> DocumentLines]

\* C19: when no line of a document with text is recognised as a heading, the mapping of
\* the segmenter has the single key body, its content is the whole document, and the
\* experience, education and project extractors work on that content
C19_BodyFallback ==
  (SegmenterRan /\ run = 1 /\ NoHeadingFound) =>
    /\ DOMAIN Segmented = {"body"}
    /\ impl = "scripts" =>
         /\ sections["body"] = Corpus[doc]
         /\ outcome.value = flat_fields(sections, Corpus[doc], "none", first.today)
    /\ impl = "python" =>
         /\ cache["body"] = DocumentLines
         /\ outcome.value.experience
              = ExtractExperienceDetails(WholeDocumentAs({"experience"}), first.today)
         /\ outcome.value.projects = ExtractProjectsDetails(WholeDocumentAs({"projects"}))
\* the structured parser has no section at all for the document, and no experience entry
C19_EmptyMapping ==
  /\ SegmenterRan /\ impl = "python" /\ NoHeadingFound
  /\ cache = EmptyMap
  /\ ~outcome.raised
  /\ outcome.value.experience = <<>>
  /\ outcome.value.projects = <<>>
\* the flat-output parser files the document under header
C19_HeaderNotBody ==
  /\ SegmenterRan /\ impl = "scripts" /\ NoHeadingFound
  /\ DOMAIN sections = {"header"}
  /\ sections["header"] = Join(DocumentLines, <<NL>>)

FallbackExperienceScenario == <<<<"S","o","f","t","w","a","r","e"," ","I","n","t","e","r","n">>, <<"A","c","m","e"," ","L","a","b","s">>, <<"B","u","i","l","t"," ","i","n","t","e","r","n","a","l"," ","t","o","o","l","s">>>>
\* the experience section has text enough for a block, a line that can be a role, and no
\* line with a date range
UndatedExperience ==
  /\ Len(Join(ExperienceLines, <<NL>>)) >= 10
  /\ \E i \in 1..Len(ExperienceLines) : ~IsBullet(ExperienceLines[i])
  /\ \A i \in 1..Len(ExperienceLines) : ~IsDateLine(ExperienceLines[i])

\* C20: when the experience section has content and none of its lines holds a date range,
\* the fallback still gives entries: at least one, each with the defaulted duration (6
\* months for an intern role, 12 otherwise) and with empty start and end dates
C20_FallbackGivesEntries ==
  (PythonResult /\ UndatedExperience) =>
    /\ outcome.value.experience # <<>>
    /\ \A e \in 1..Len(outcome.value.experience) :
         /\ outcome.value.experience[e].duration_months
              = (IF Contains(Lower(outcome.value.experience[e].role), <<"i","n","t","e","r","n">>) THEN 6 ELSE 12)
         /\ outcome.value.experience[e].start_date = <<>>
         /\ outcome.value.experience[e].end_date = <<>>
\* the section of an intern without dates gives no entry and no month
C20_FallbackGivesNothing ==
  /\ PythonResult /\ UndatedExperience
  /\ ExperienceLines = FallbackExperienceScenario
  /\ outcome.value.experience = <<>>
  /\ outcome.value.experience_months_total = 0

\* the date lines of the experience section, in the order of the file
DateLines == SelectSeq(ExperienceLines, IsDateLine)

\* C21: extract_experience_details gives exactly one entry for each date line of the
\* experience section: the entries are as many as the date lines, and no date line is
\* left without an entry
C21_OneEntryPerDateLine ==
  PythonResult => Len(outcome.value.experience) = Len(DateLines)
\* a date line that no role line precedes is passed over: the section has a date line
\* and the record has fewer entries than date lines
C21_DateLineWithoutEntry ==
  PythonResult /\ DateLines # <<>> /\ Len(outcome.value.experience) < Len(DateLines)

\* the date lines of the experience section that a role line precedes (a line that is
\* not blank and not a bullet, among the four lines before the date line)
NamedDateLines ==
  LET named(lines, i) == \E k \in Max(1, i - 4)..(i - 1) : Strip(lines[k]) # <<>> /\ ~IsBullet(Strip(lines[k]))
      of(lines) == [j \in 1..Len(lines) |-> IF IsDateLine(lines[j]) /\ named(lines, j) THEN Strip(lines[j]) ELSE <<>>]
  IN SelectSeq(of(ExperienceLines), LAMBDA l : l # <<>>)
\* no duration can be derived from the date line: it has no range and no count
\* that can be read, or the range ends before it starts
Underivable(date_line, clock) == ParseDurationAndDates(date_line, clock)[1] = 0
DefaultDuration(role) == IF Contains(Lower(role), <<"i","n","t","e","r","n">>) THEN 6 ELSE 12

\* C22: an experience entry whose date line gives no duration (no range that can be
\* read, or a range that ends before it starts) has the default duration, 6 months when
\* its role holds 'intern' and 12 months otherwise, and empty start and end dates
C22_DefaultDuration ==
  (PythonResult /\ run = 1) =>
    LET checked(entries, date_lines) ==
          /\ Len(entries) = Len(date_lines)
          /\ \A i \in 1..Len(entries) :
               Underivable(date_lines[i], first.today) =>
                 /\ entries[i].duration_months = DefaultDuration(entries[i].role)
                 /\ entries[i].start_date = <<>>
                 /\ entries[i].end_date = <<>>
    IN checked(outcome.value.experience, NamedDateLines)
\* a record with an intern entry and another entry, both from date lines that give no
\* duration: the first has 6 months, the second 12
C22_BothDefaults ==
  /\ PythonResult /\ run = 1
  /\ Len(NamedDateLines) = 2 /\ Len(outcome.value.experience) = 2
  /\ \A i \in 1..2 : Underivable(NamedDateLines[i], first.today)
  /\ outcome.value.experience[1].duration_months = 6
  /\ outcome.value.experience[2].duration_months = 12

\* a date of the form YYYY-MM with a month from 01 to 12
IsYearMonth(d) ==
  /\ Len(d) = 7 /\ d[5] = "-"
  /\ \A i \in {1, 2, 3, 4, 6, 7} : IsDigit(d[i])
  /\ IntOf(Sub(d, 6, 7)) \in 1..12
YearOf(d) == IntOf(Sub(d, 1, 4))
MonthOf(d) == IntOf(Sub(d, 6, 7))
\* the months from the month of start to the month of end, both counted
MonthsBetween(start, end) == (YearOf(end) - YearOf(start)) * 12 + (MonthOf(end) - MonthOf(start)) + 1

\* C27: in every experience entry start_date and end_date are both empty or both of the
\* form YYYY-MM with a month from 01 to 12; when they are not empty the start is not
\* after the end and duration_months is the number of months between them, both
\* counted; duration_months is at least 1 in every entry
C27_DatesAndDuration ==
  PythonResult =>
    \A i \in 1..Len(outcome.value.experience) :
      LET dated(e) ==
            /\ (e.start_date = <<>>) <=> (e.end_date = <<>>)
            /\ e.start_date # <<>> =>
                 /\ IsYearMonth(e.start_date) /\ IsYearMonth(e.end_date)
                 /\ MonthsBetween(e.start_date, e.end_date) >= 1
                 /\ e.duration_months = MonthsBetween(e.start_date, e.end_date)
            /\ e.duration_months >= 1
      IN dated(outcome.value.experience[i])
\* a record with a dated entry, and a record with an entry whose date line is a range
\* that ends before it starts
C27_DatedEntry ==
  /\ PythonResult /\ outcome.value.experience # <<>>
  /\ outcome.value.experience[1].start_date # <<>>
  /\ outcome.value.experience[1].duration_months > 1
C27_ReversedRange ==
  /\ PythonResult /\ run = 1 /\ outcome.value.experience # <<>>
  /\ NamedDateLines # <<>>
  /\ ParseDurationAndDates(NamedDateLines[1], first.today)[2] # <<>>
  /\ Underivable(NamedDateLines[1], first.today)
  /\ outcome.value.experience[1].start_date = <<>>

\* the skills as _post_process_skills collects them in the parse of the resume file:
\* every <<skill, category>> of the category lists after the harvest and the promotion
\* of the project tools, the skill under its canonical name
CollectedSkills ==
  LET listed(promoted) ==
        Flatten([c \in 1..Len(TechnicalCategories) |->
                   [i \in 1..Len(promoted[TechnicalCategories[c]]) |->
                      <<promoted[TechnicalCategories[c]][i], TechnicalCategories[c]>>]])
      extended(skills_data, harvested) ==
        [c \in RangeOf(TechnicalCategories) |-> skills_data[c] \o ListOfSet(InCategory(harvested, c), seed)]
      merged(text_content, skills_data, experience_details, projects_details) ==
        listed(PromoteProjectTools(
                 extended(skills_data,
                          HarvestSkillsFromTexts(
                            <<text_content>>
                            \o Flatten([e \in 1..Len(experience_details) |-> experience_details[e].responsibilities])
                            \o [p \in 1..Len(projects_details) |-> projects_details[p].description])),
                 projects_details))
      read(text_content, parsed_sections) ==
        merged(text_content, ExtractSkills(text_content, parsed_sections, seed),
               ExtractExperienceDetails(parsed_sections, first.today), ExtractProjectsDetails(parsed_sections))
      of(text_content) == read(text_content, GetSections(TextLines(text_content), EmptyMap))
  IN CollectEverySkill(of(Strip(extract_text(Corpus[doc]))), <<>>)
\* the categories a skill was collected under
CollectedUnder(skill) ==
  {CollectedSkills[i][2] : i \in {j \in 1..Len(CollectedSkills) : CollectedSkills[j][1] = skill}}
\* the priority table: languages, hardware terms, tools, frameworks, databases, and
\* for a skill of no table the first of its categories in the same order
PriorityCategory(skill, categories) ==
  IF skill \in known_languages THEN "programming_languages"
  ELSE IF skill \in hardware_terms THEN "technical_skills"
  ELSE IF skill \in known_tools THEN "tools_platforms"
  ELSE IF skill \in known_frameworks THEN "frameworks_libraries"
  ELSE IF skill \in known_databases THEN "databases"
  ELSE IF "programming_languages" \in categories THEN "programming_languages"
  ELSE IF "tools_platforms" \in categories THEN "tools_platforms"
  ELSE IF "frameworks_libraries" \in categories THEN "frameworks_libraries"
  ELSE IF "databases" \in categories THEN "databases"
  ELSE "technical_skills"

\* C23: a skill that was collected under several categories is reported in the one of
\* highest priority only (languages, hardware terms, tools, frameworks, databases, then
\* the default technical_skills), whatever the order in which the category lists are read
C23_HighestPriorityCategory ==
  (PythonResult /\ run = 1) =>
    \A i \in 1..Len(CollectedSkills) :
      LET kept(skill, category) ==
            \A c \in RangeOf(TechnicalCategories) :
              (NormalizeCasing(skill) \in RangeOf(outcome.value[c])) => c = category
          filed(skill) == kept(skill, PriorityCategory(skill, CollectedUnder(skill)))
      IN filed(CollectedSkills[i][1])
\* a skill collected under technical_skills and under the category categorize_skill
\* gives it is reported under technical_skills
C23_KeptInDefaultCategory ==
  /\ PythonResult /\ run = 1
  /\ \E i \in 1..Len(CollectedSkills) :
       LET misfiled(skill, categories) ==
             /\ "technical_skills" \in categories /\ "tools_platforms" \in categories
             /\ PriorityCategory(skill, categories) = "tools_platforms"
             /\ NormalizeCasing(skill) \in RangeOf(outcome.value.technical_skills)
             /\ NormalizeCasing(skill) \notin RangeOf(outcome.value.tools_platforms)
       IN misfiled(CollectedSkills[i][1], CollectedUnder(CollectedSkills[i][1]))

\* C24: the education list of the record never holds two entries with the same degree
\* and the same institution, whatever the input, a text in which the same degree is
\* matched more than once included
C24_EducationDeduplicated ==
  (Parsed /\ ~outcome.raised) =>
    \A i, j \in 1..Len(outcome.value.education) :
      LET same(a, b) == a.degree = b.degree /\ a.institution = b.institution
      IN same(outcome.value.education[i], outcome.value.education[j]) => i = j
\* the structured parser has matched the same degree twice and reports it twice, with
\* the same institution
C24_DegreeReportedTwice ==
  /\ PythonResult
  /\ Len(outcome.value.education) = 2
  /\ outcome.value.education[1].degree = outcome.value.education[2].degree
  /\ outcome.value.education[1].institution = outcome.value.education[2].institution

\* the names flush_project gives the known tools that stand as words in text
ToolNamesIn(text) ==
  LET tool_list == FRAMEWORKS_LIBRARIES \o PROGRAMMING_LANGUAGES \o TOOLS_PLATFORMS \o DATABASES
  IN {Lookup(SKILL_CANONICAL, Lower(tool_list[i]), Title(tool_list[i])) :
        i \in {j \in 1..Len(tool_list) : OccursWordBounded(Lower(tool_list[j]), text)}}
\* name stands in text, in any casing
OccursIn(name, text) == \E i \in 1..Len(text) : AtCI(text, i, Lower(name))

\* C25: tools_methods_used of a project is a function of the description of that project
\* alone: it is what the lookup gives for the reported description with no title and no
\* other text, so that two resumes with the same description of a project give the same
\* list whatever else they hold; and every tool or method listed is the name of a tool
\* that stands in the description or a piece of the description
C25_ToolsFromOwnDescription ==
  PythonResult =>
    \A i \in 1..Len(outcome.value.projects) :
      LET own(project) ==
            /\ project.tools_methods_used = FlushProject(<<>>, <<project.description>>).tools_methods_used
            /\ \A t \in RangeOf(project.tools_methods_used) :
                 t \in ToolNamesIn(project.description) \/ OccursIn(t, project.description)
      IN own(outcome.value.projects[i])
\* a resume with a tool named in the title of a project and in the skills harvested from
\* the whole text, while the tools of that project are those of its description
C25_ToolOutsideDescription ==
  /\ PythonResult
  /\ \E i \in 1..Len(outcome.value.projects) :
       /\ OccursIn(<<"D","o","c","k","e","r">>, outcome.value.projects[i].title)
       /\ <<"D","o","c","k","e","r">> \in RangeOf(outcome.value.tools_platforms)
       /\ outcome.value.projects[i].tools_methods_used = <<<<"R","e","a","c","t">>>>

\* the lines of the projects section of the resume file that extract_projects_details
\* walks: trimmed, without the blank ones
ProjectLines ==
  LET walked(proj_lines) == SelectSeq([i \in 1..Len(proj_lines) |-> Strip(proj_lines[i])], LAMBDA l : l # <<>>)
  IN walked(SectionLines(GetSections(TextLines(Strip(extract_text(Corpus[doc]))), EmptyMap), "projects"))
\* the positions in ProjectLines of the titles of the projects reported, in order: each
\* title is looked up after the title before it; 0 when it is not found
RECURSIVE TitlePositions(_, _, _)
TitlePositions(projects, i, after) ==
  LET found(at) == <<at>> \o TitlePositions(projects, i + 1, IF at = 0 THEN after ELSE at)
      looked(hits) == found(IF hits = {} THEN 0 ELSE SetMin(hits))
  IN IF i > Len(projects) THEN <<>>
     ELSE looked({k \in (after + 1)..Len(ProjectLines) : Trunc(ProjectLines[k], 100) = projects[i].title})

\* C29: every line of the description of a project is a description line of the projects
\* section that stands after the title of that project and before the next title; a
\* description line that stands before the first title belongs to no project
C29_DescriptionFollowsTitle ==
  PythonResult =>
    LET placed(projects, titles) ==
          \A i \in 1..Len(projects) :
            /\ titles[i] # 0
            /\ \A d \in RangeOf(SplitOn(projects[i].description, NL)) :
                 d # <<>> =>
                   \E k \in (titles[i] + 1)..(IF i < Len(projects) THEN titles[i + 1] - 1 ELSE Len(ProjectLines)) :
                     StripBullet(ProjectLines[k]) = d
    IN placed(outcome.value.projects, TitlePositions(outcome.value.projects, 1, 0))
\* the first project reported has the description line that stands before its title
C29_LineBeforeTitleAttributed ==
  /\ PythonResult /\ outcome.value.projects # <<>>
  /\ Len(ProjectLines) >= 2
  /\ IsBullet(ProjectLines[1])
  /\ Trunc(ProjectLines[2], 100) = outcome.value.projects[1].title
  /\ StripBullet(ProjectLines[1]) \in RangeOf(SplitOn(outcome.value.projects[1].description, NL))

\* main() has ended: sys.exit was called
MainEnded == pc \in {"printed", "rejected"}

\* C28: on every path of main() (a wrong number of arguments, a file that does not exist,
\* parse() raising, a result json.dumps does not take, success) exactly one JSON document,
\* the record of the resume or the default record, is on standard output when main()
\* ends, never more than one before, the diagnostics are on standard error, and the exit
\* status is 0
C28_OneDocumentExitZero ==
  /\ Len(stdout) <= 1
  /\ exit_code \in {-1, 0}
  /\ MainEnded <=> exit_code = 0
  /\ MainEnded => /\ Len(stdout) = 1
                  /\ stdout[1] = DefaultOf(impl) \/ (pc = "printed" /\ stdout[1] = outcome.value)
  /\ \A i \in 1..Len(stderr) : stderr[i] \in {"ERROR: Usage", "ERROR: File not found", "ERROR: Resume parsing failed"}
\* main() has ended after json.dumps refused the result parse() returned: the default
\* record is the one document written, with a diagnostic on standard error
C28_DefaultAfterDumpsFailure ==
  /\ MainEnded /\ ~serializable /\ ~outcome.raised
  /\ stdout = <<DefaultOf(impl)>>
  /\ stderr # <<>>
  /\ exit_code = 0
\* main() has ended on a command line without a file path
C28_DefaultAfterUsage ==
  /\ pc = "rejected" /\ argc # 2
  /\ stdout = <<DefaultOf(impl)>>
  /\ exit_code = 0
\* main() has ended with the record of a resume
C28_ResultPrinted ==
  /\ pc = "printed" /\ ~outcome.raised /\ serializable
  /\ stdout = <<outcome.value>>
  /\ outcome.value # DefaultOf(impl)
  /\ exit_code = 0

\* the text parse() stored and the section mapping a first scan of it gives
StoredText == Strip(extract_text(Corpus[doc]))
FreshSections == GetSections(TextLines(StoredText), EmptyMap)

\* C26: the four field extractors leave the text of the parser and the contents of the
\* cached section mapping as they are (the mapping is empty or what the scan of the text
\* gives), so that each of them returns what it returns when called first on a new
\* parser, whatever was called before it
C26_ExtractorsIndependent ==
  /\ parser_text = StoredText
  /\ cache \in {EmptyMap, FreshSections}
  /\ \A i \in 1..Len(called) :
       results[i] = ExtractorCall(called[i], StoredText, EmptyMap, Today0, seed).result
\* the four extractors were called in the reverse of the order of parse() on a resume
\* with all four sections, and each has found something
C26_ReverseOrder ==
  /\ called = <<"extract_projects_details", "extract_experience_details", "extract_education", "extract_skills">>
  /\ results[1] # <<>> /\ results[2] # <<>> /\ results[3] # <<>>
  /\ results[4].programming_languages # <<>>
  /\ cache = FreshSections /\ cache # EmptyMap

\* a call of load_models has returned success
LoadSucceeded == \E i \in 1..Len(load_results) : load_results[i]

\* C30: after any calls of load_models and of the predict methods, model_loaded is true
\* only if a call of load_models has succeeded with the model, job_embeddings and
\* job_texts all set; and as long as no call of load_models has succeeded, a load that
\* failed part-way included, a predict call returns success False with 'Model not
\* loaded' and the model is never invoked
C30_LoadedOnlyAfterSuccess ==
  /\ model_loaded => /\ LoadSucceeded
                     /\ rf_model # "None" /\ job_embeddings # "None" /\ job_texts # "None"
  /\ ~LoadSucceeded => /\ invoked = 0
                       /\ prediction # <<>> => ~prediction.success /\ prediction.error = "Model not loaded"
\* the one call of load_models has failed, model_loaded is set all the same, and a
\* prediction has invoked the model and succeeded
C30_PredictionAfterFailedLoad ==
  /\ load_results = <<FALSE>>
  /\ model_loaded /\ job_embeddings = "None"
  /\ prediction # <<>> /\ prediction.success
  /\ invoked = 1
\* load_models has succeeded with a model file that holds None
C30_LoadedWithoutModel ==
  /\ load_results = <<TRUE>>
  /\ model_loaded /\ rf_model = "None"

====
